---- MODULE Spec2Model ----
(***************************************************************************)
(* ForensicSense: the tamper-evident audit log (utils/logging.py) and the  *)
(* evidence seals (utils/crypto.py, intel/evidence.py).                    *)
(*                                                                         *)
(* Python values are modelled as strings; a dict is a function from its    *)
(* keys to its values.  SHA-256 is modelled as an injective function of    *)
(* the text it digests (no collisions).                                    *)
(***************************************************************************)
EXTENDS Integers, Sequences, FiniteSets, TLC

VARIABLES
    auditExists,    \* whether audit_file exists on disk
    auditFile,      \* the lines of audit_file, in order
    previousHash,   \* AuditLogger._previous_hash of each instance
    verifyResult,   \* what verify_integrity returned or raised, in the state it returns to
    lastOp,         \* the operation that produced the current state
    tamperCount,    \* number of outside modifications of audit_file so far
    pc,             \* position of each thread inside log_action
    pending,        \* the entry each thread has built inside log_action
    evidence,       \* the fields of the Evidence object
    chain,          \* Evidence.chain, the chain-of-custody list
    sealed,         \* the sealed package the caller holds in memory
    sealedAs,       \* the envelope of that package as it was when sealed
    sealedFile,     \* the contents of the .sealed file
    sealResult,     \* what the latest verify_seal / load call returned or raised
    scanPhase,      \* scan_ports: not called, running, or returned
    scanKind,       \* the method that called scan_ports: quick_scan, full_scan, or the caller itself
    scanHost,       \* the host scan_ports was called with
    scanPorts,      \* the list of ports scan_ports was called with
    maxConcurrent,  \* NetworkScanner.max_concurrent
    rateLimit,      \* NetworkScanner.rate_limit
    permits,        \* the value of the semaphore of the scan_ports call
    probePc,        \* position of each scan_with_semaphore task
    probeOutcome,   \* how the connect attempt of each task ended
    probeResult,    \* what each task returned or raised
    scanReturn,     \* the list scan_ports returned
    profArgs,       \* the arguments of the profile_target call and the stubs it runs against
    profStage,      \* the step of profile_target the call has reached
    profRunning,    \* whether the call is inside that step (past its depth test)
    profile,        \* the TargetProfile under construction
    stageLog,       \* the steps begun and ended so far, in order
    workers,        \* the awaited fetches and sub-queries in flight
    todo,           \* the fetches the fingerprinting step has still to await, in order
    evidenceItems,  \* EvidenceCollector.evidence_items (their evidence types)
    profReturn,     \* how the profile_target call ended
    failedStages,   \* the steps whose except clause has run
    osintPhase,     \* collect_osint: not called, running, returned or raised
    osintTarget,    \* the target collect_osint was called with
    subQuery,       \* what each sub-query handed to the gather of collect_osint
    subHow,         \* how each sub-query ended: on its normal path, in its except clause, or raising
    osintResult,    \* the dict collect_osint returned
    resolvePc,      \* the position of the resolve_target call
    resolveTarget,  \* the target resolve_target was called with
    resolveResult,  \* the result dict of resolve_target
    lookups,        \* how each lookup of resolve_target ended
    riskProfile,    \* the profile dict given to assess_risk_score
    riskResult,     \* the dict assess_risk_score returned
    riskOp,         \* whether the profile was scored as profiled or after a vulnerability was added
    techBody,       \* the body _detect_technologies was called with: the words that occur in it
    techHeaders,    \* the headers _detect_technologies was called with
    detected,       \* the list _detect_technologies returned
    techDone,       \* whether _detect_technologies has returned
    pathPc,         \* the position of the probe_common_paths call
    pathIndex,      \* the index in common_paths of the path the loop is at
    pathHost,       \* the stub of the remote host the call runs against
    pathInFlight,   \* the requests sent and not yet answered
    pathLog,        \* the requests and sleeps of the call so far, in order
    discovered,     \* the list probe_common_paths builds and returns
    tornTail,       \* whether audit_file ends with an incomplete line that a failed write left
    logReturn,      \* how the latest log_action call ended: the hash it returned, or the exception
    utcnow,         \* the second datetime.utcnow() falls in
    created,        \* the number of Evidence objects constructed so far
    evidence_items, \* EvidenceCollector.evidence_items of the collector in use
    evidence_dir,   \* the files of the evidence directory: file name and the Evidence object whose seal it holds
    saved,          \* the mapping the latest save_all returned: evidence id and file name
    collectorOp     \* the latest operation on the collector

auditVars == <<auditExists, auditFile, previousHash, verifyResult, lastOp, tamperCount>>
concVars == <<pc, pending>>
auditCore == <<auditExists, auditFile, previousHash, verifyResult, pc, pending>>
sealVars == <<evidence, chain, sealed, sealedAs, sealedFile, sealResult>>
scanVars == <<scanPhase, scanKind, scanHost, scanPorts, maxConcurrent, rateLimit, permits, probePc,
              probeOutcome, probeResult, scanReturn>>
profVars == <<profArgs, profStage, profRunning, profile, stageLog, workers, todo, evidenceItems,
              profReturn, failedStages>>
osintVars == <<osintPhase, osintTarget, subQuery, subHow, osintResult>>
dnsVars == <<resolvePc, resolveTarget, resolveResult, lookups>>
riskVars == <<riskProfile, riskResult, riskOp>>
fpVars == <<techBody, techHeaders, detected, techDone>>
pathVars == <<pathPc, pathIndex, pathHost, pathInFlight, pathLog, discovered>>
writeVars == <<tornTail, logReturn>>
collectorVars == <<utcnow, created, evidence_items, evidence_dir, saved, collectorOp>>
intelVars == <<scanVars, profVars, osintVars, dnsVars, riskVars, fpVars, pathVars, writeVars, collectorVars>>
vars == <<auditExists, auditFile, previousHash, verifyResult, lastOp, tamperCount, pc, pending,
          evidence, chain, sealed, sealedAs, sealedFile, sealResult,
          scanPhase, scanKind, scanHost, scanPorts, maxConcurrent, rateLimit, permits, probePc,
          probeOutcome, probeResult, scanReturn,
          profArgs, profStage, profRunning, profile, stageLog, workers, todo, evidenceItems,
          profReturn, failedStages,
          osintPhase, osintTarget, subQuery, subHow, osintResult, resolvePc, resolveTarget, resolveResult, lookups, riskProfile, riskResult, riskOp,
          techBody, techHeaders, detected, techDone,
          pathPc, pathIndex, pathHost, pathInFlight, pathLog, discovered,
          tornTail, logReturn,
          utcnow, created, evidence_items, evidence_dir, saved, collectorOp>>

(***************************************************************************)
(* Bounds of the model                                                     *)
(***************************************************************************)
MaxLog == 3
MaxTamperLog == 2
MaxTamper == 1
MaxConcLog == 3

Loggers == {"L1", "L2"}
Threads == {"T1", "T2"}
Users == {"alice", "bob"}
Targets == {"10.0.0.5"}
ActionNames == {"scan"}
Outcomes == {"ok"}
Timestamps == {"2024-01-01T00:00:00"}

\* Python's None, and the absence of an instance / of a result
None == "<None>"
NoInstance == "<no instance>"
NoResult == [outcome |-> "none", cause |-> "none", line |-> 0]
AuthTokens == {None, "tok"}
\* the callers of log_action: alice passes no auth_token, bob passes one
Callers == {<<"alice", None>>, <<"bob", "tok">>}

(***************************************************************************)
(* JSON serialization                                                      *)
(***************************************************************************)
Quote(s) == "\"" \o s \o "\""

\* json.dumps of a str or None
JsonValue(v) == IF v = None THEN "null" ELSE Quote(v)

RECURSIVE Join(_, _)
Join(items, sep) ==
    IF Len(items) = 0 THEN ""
    ELSE IF Len(items) = 1 THEN items[1]
    ELSE items[1] \o sep \o Join(Tail(items), sep)

\* json.dumps(d) with the keys written in the order of the sequence keys
DumpsOrdered(d, keys) ==
    "{" \o Join([i \in 1..Len(keys) |-> Quote(keys[i]) \o ": " \o JsonValue(d[keys[i]])], ", ") \o "}"

\* the keys of an audit entry in sorted (code point) order
SortedEntryKeys == <<"action", "auth_token", "hash", "previous_hash", "result", "target", "timestamp", "user">>

\* json.dumps(entry, sort_keys=True)
DumpsSorted(d) ==
    DumpsOrdered(d, SelectSeq(SortedEntryKeys, LAMBDA k : k \in DOMAIN d))

\* hashlib.sha256(text.encode()).hexdigest()
Sha256(text) == "sha256(" \o text \o ")"

Genesis == "0000000000000000000000000000000000000000000000000000000000000000"

\* dict operations
DictGet(d, k) == IF k \in DOMAIN d THEN d[k] ELSE None
DictPop(d, k) == [x \in DOMAIN d \ {k} |-> d[x]]
DictSet(d, k, v) == [x \in DOMAIN d \cup {k} |-> IF x = k THEN v ELSE d[x]]

\* a line of the audit file: a JSON object, another JSON value, or no JSON at all
ObjectLine(obj) == [kind |-> "object", obj |-> obj]
ValueLine == [kind |-> "value", obj |-> <<>>]
InvalidLine == [kind |-> "invalid", obj |-> <<>>]

(***************************************************************************)
(* AuditLogger                                                             *)
(***************************************************************************)
\* the entry log_action builds before hashing
NewEntry(timestamp, user, target, action, result, auth_token, previous_hash) ==
    [timestamp |-> timestamp, user |-> user, target |-> target, action |-> action,
     result |-> result, auth_token |-> auth_token, previous_hash |-> previous_hash]

\* a slip: the entry hashed in insertion order, without sort_keys
EntryHashUnsorted(entry) ==
    Sha256(DumpsOrdered(entry, <<"timestamp", "user", "target", "action", "result", "auth_token", "previous_hash">>))

\* current_hash = sha256(json.dumps(entry, sort_keys=True))
EntryHash(entry) == Sha256(DumpsSorted(entry))

\* a slip: the file opened with mode 'w'
WriteLine(lines, entry) == <<ObjectLine(entry)>>

\* open(audit_file, 'a'); f.write(json.dumps(entry) + '\n')
AppendLine(lines, entry) == Append(lines, ObjectLine(entry))

\* verify_integrity's recomputation of a parsed line's hash
CalculatedHash(obj) == Sha256(DumpsSorted(DictPop(obj, "hash")))

Failure(cause, line_num) == [outcome |-> "fail", cause |-> cause, line |-> line_num]
Raised(exception, line_num) == [outcome |-> "raise", cause |-> exception, line |-> line_num]
Success(line_num) == [outcome |-> "ok", cause |-> "Audit log verified", line |-> line_num]

Continue(line_num) == [outcome |-> "continue", cause |-> "", line |-> line_num]

\* a slip: the previous-hash comparison left out
CheckLineNoChain(ln, line_num, previous_hash) ==
    IF ln.kind = "invalid" THEN Failure("Invalid JSON", line_num)
    ELSE IF ln.kind # "object" THEN Raised("AttributeError", line_num)
    ELSE IF "hash" \notin DOMAIN ln.obj THEN Raised("KeyError", line_num)
    ELSE IF CalculatedHash(ln.obj) # ln.obj["hash"] THEN Failure("Hash mismatch", line_num)
    ELSE Continue(line_num)

\* a slip: the recomputed hash never compared with the stored one
CheckLineNoHash(ln, line_num, previous_hash) ==
    IF ln.kind = "invalid" THEN Failure("Invalid JSON", line_num)
    ELSE IF ln.kind # "object" THEN Raised("AttributeError", line_num)
    ELSE IF DictGet(ln.obj, "previous_hash") # previous_hash
         THEN Failure("Hash chain broken", line_num)
    ELSE IF "hash" \notin DOMAIN ln.obj THEN Raised("KeyError", line_num)
    ELSE Continue(line_num)

\* the body of verify_integrity's loop for line number line_num
CheckLine(ln, line_num, previous_hash) ==
    IF ln.kind = "invalid" THEN Failure("Invalid JSON", line_num)
    ELSE IF ln.kind # "object" THEN Raised("AttributeError", line_num)
    ELSE IF DictGet(ln.obj, "previous_hash") # previous_hash
         THEN Failure("Hash chain broken", line_num)
    ELSE IF "hash" \notin DOMAIN ln.obj THEN Raised("KeyError", line_num)
    ELSE IF CalculatedHash(ln.obj) # ln.obj["hash"] THEN Failure("Hash mismatch", line_num)
    ELSE Continue(line_num)

\* the loop of verify_integrity, having read line_num lines
RECURSIVE VerifyFrom(_, _, _)
VerifyFrom(lines, line_num, previous_hash) ==
    IF line_num = Len(lines) THEN Success(line_num)
    ELSE LET r == CheckLine(lines[line_num + 1], line_num + 1, previous_hash)
         IN IF r.outcome # "continue" THEN r
            ELSE VerifyFrom(lines, line_num + 1, lines[line_num + 1].obj["hash"])

\* a variant: a log whose last record is not the one the logger wrote last is refused
VerifyIntegrityResultAnchored(exists, lines) ==
    IF ~exists THEN [outcome |-> "ok", cause |-> "No audit log found", line |-> 0]
    ELSE LET r == VerifyFrom(lines, 0, Genesis)
             last_hash == IF Len(lines) = 0 THEN Genesis ELSE lines[Len(lines)].obj["hash"]
         IN IF r.outcome = "ok" /\ last_hash # previousHash["L1"]
            THEN Failure("Records missing", Len(lines))
            ELSE r

VerifyIntegrityResult(exists, lines) ==
    IF ~exists THEN [outcome |-> "ok", cause |-> "No audit log found", line |-> 0]
    ELSE VerifyFrom(lines, 0, Genesis)

(***************************************************************************)
(* JSON values of the evidence seals.  A value carries its type tag; a     *)
(* dict is the sequence of its items in insertion order; a key is a str or *)
(* an int and is written to JSON text as a string.                         *)
(***************************************************************************)
JStr(s) == [t |-> "str", s |-> s, items |-> <<>>]
JNull == [t |-> "null", s |-> "", items |-> <<>>]
\* a reference to the list object Evidence.chain
JRef == [t |-> "ref", s |-> "chain", items |-> <<>>]
\* no value at all
Nothing == [t |-> "none", s |-> "", items |-> <<>>]

StrKey(s) == [int |-> FALSE, n |-> 0, text |-> s]
IntKey(n) == [int |-> TRUE, n |-> n, text |-> ToString(n)]
Item(k, v) == [key |-> k, val |-> v]
StrItem(k, v) == Item(StrKey(k), v)
\* the place of a list element, which has no key
Element(v) == Item(StrKey(""), v)

JList(elements) ==
    [t |-> "list", s |-> "", items |-> [i \in 1..Len(elements) |-> Element(elements[i])]]
JDict(items) == [t |-> "dict", s |-> "", items |-> items]

\* the key texts of the model in code point order, the order of str comparison
CodePointOrder ==
    <<"443", "80", "action", "actor", "algorithm", "case_id", "chain_of_custody", "collected_at",
      "collector", "data", "evidence", "evidence_id", "evidence_type", "hash", "ip", "metadata",
      "notes", "seal", "sealed_at", "sealer_version", "timestamp">>

Rank(s) == CHOOSE i \in 1..Len(CodePointOrder) : CodePointOrder[i] = s

\* k1 < k2 for two keys of one dict: ints by value, strs by code points
KeyLess(a, b) == IF a.int THEN a.n < b.n ELSE Rank(a.text) < Rank(b.text)

RECURSIVE InsertItem(_, _)
InsertItem(p, sorted) ==
    IF Len(sorted) = 0 THEN <<p>>
    ELSE IF KeyLess(p.key, sorted[1].key) THEN <<p>> \o sorted
    ELSE <<sorted[1]>> \o InsertItem(p, Tail(sorted))

\* sorted(dct.items())
RECURSIVE SortItems(_)
SortItems(items) ==
    IF Len(items) = 0 THEN <<>> ELSE InsertItem(items[1], SortItems(Tail(items)))

\* json.dumps(v, sort_keys=sort_keys)
RECURSIVE Dumps(_, _)
Dumps(v, sort_keys) ==
    CASE v.t = "str" -> Quote(v.s)
      [] v.t = "null" -> "null"
      [] v.t = "list" ->
            "[" \o Join([i \in 1..Len(v.items) |-> Dumps(v.items[i].val, sort_keys)], ", ") \o "]"
      [] v.t = "dict" ->
            LET items == IF sort_keys THEN SortItems(v.items) ELSE v.items
            IN "{" \o Join([i \in 1..Len(items) |->
                               Quote(items[i].key.text) \o ": " \o Dumps(items[i].val, sort_keys)],
                           ", ") \o "}"

\* json.load of what json.dump wrote for v: the same value, every key a str
RECURSIVE Reload(_)
Reload(v) ==
    [t |-> v.t, s |-> v.s,
     items |-> [i \in 1..Len(v.items) |->
                  Item(StrKey(v.items[i].key.text), Reload(v.items[i].val))]]

\* the value with every reference to Evidence.chain followed
RECURSIVE Resolve(_, _)
Resolve(v, chainNow) ==
    IF v.t = "ref" THEN JList(chainNow)
    ELSE [t |-> v.t, s |-> v.s,
          items |-> [i \in 1..Len(v.items) |->
                       Item(v.items[i].key, Resolve(v.items[i].val, chainNow))]]

\* d[k] for a str k: whether it exists, its value, its assignment, its removal
HasKey(d, k) == d.t = "dict" /\ \E i \in 1..Len(d.items) : d.items[i].key = StrKey(k)
GetKey(d, k) == d.items[CHOOSE i \in 1..Len(d.items) : d.items[i].key = StrKey(k)].val
SetKey(d, k, val) ==
    IF HasKey(d, k)
    THEN JDict([i \in 1..Len(d.items) |->
                  IF d.items[i].key = StrKey(k) THEN StrItem(k, val) ELSE d.items[i]])
    ELSE JDict(Append(d.items, StrItem(k, val)))
DelKey(d, k) == JDict(SelectSeq(d.items, LAMBDA p : p.key # StrKey(k)))

(***************************************************************************)
(* EvidenceSealer and Evidence                                             *)
(***************************************************************************)
\* EvidenceSealer(hash_algorithm='sha256')
HashAlgorithm == "sha256"

\* _calculate_hash: hashlib.new(algorithm), update, hexdigest
CalculateHash(text) == HashAlgorithm \o "(" \o text \o ")"

\* a slip: metadata left out of the hashed text
EnvelopeTextNoMetadata(envelope) ==
    Dumps(IF envelope.t = "dict" THEN DelKey(envelope, "metadata") ELSE envelope, TRUE)

\* a slip: the keys left in insertion order
EnvelopeTextUnsorted(envelope) == Dumps(envelope, FALSE)

\* evidence_str = json.dumps(evidence, sort_keys=True)
EnvelopeText(envelope) == Dumps(envelope, TRUE)

\* seal_evidence(data, metadata) at time timestamp; chainNow is Evidence.chain
SealEvidenceResult(data, metadata, timestamp, chainNow) ==
    LET envelope == JDict(<<StrItem("timestamp", JStr(timestamp)),
                            StrItem("data", data),
                            StrItem("metadata",
                                    IF metadata = JNull \/ metadata = JDict(<<>>)
                                    THEN JDict(<<>>) ELSE metadata),
                            StrItem("sealer_version", JStr("1.0"))>>)
        evidence_hash == CalculateHash(EnvelopeText(Resolve(envelope, chainNow)))
    IN JDict(<<StrItem("evidence", envelope),
               StrItem("seal", JDict(<<StrItem("algorithm", JStr(HashAlgorithm)),
                                       StrItem("hash", JStr(evidence_hash)),
                                       StrItem("sealed_at", JStr(timestamp))>>))>>)

\* a slip: the two hashes never compared
VerifySealNoCompare(sealed_evidence) ==
    IF ~HasKey(sealed_evidence, "evidence") \/ ~HasKey(sealed_evidence, "seal") THEN FALSE
    ELSE HasKey(GetKey(sealed_evidence, "seal"), "hash")

\* verify_seal: a KeyError or TypeError (a missing section, a value that is no dict)
\* gives False
VerifySeal(sealed_evidence) ==
    IF ~HasKey(sealed_evidence, "evidence") \/ ~HasKey(sealed_evidence, "seal") THEN FALSE
    ELSE IF ~HasKey(GetKey(sealed_evidence, "seal"), "hash") THEN FALSE
    ELSE JStr(CalculateHash(EnvelopeText(GetKey(sealed_evidence, "evidence"))))
            = GetKey(GetKey(sealed_evidence, "seal"), "hash")

\* the .sealed file: absent, JSON text (held as the value it parses to), or other text
NoFile == [kind |-> "missing", v |-> Nothing]
JsonFile(v) == [kind |-> "json", v |-> v]
GarbageFile == [kind |-> "invalid", v |-> Nothing]

\* save_sealed_evidence: json.dump(sealed_evidence, f, indent=2)
SavedFile(sealed_evidence) == JsonFile(Reload(sealed_evidence))

NoSealResult == [op |-> "none", outcome |-> "none", value |-> Nothing]
SealRaised(op, exception) == [op |-> op, outcome |-> exception, value |-> Nothing]
SealReturned(op, value) == [op |-> op, outcome |-> "returned", value |-> value]

\* load_sealed_evidence(filepath)
LoadSealedEvidence(file) ==
    IF file.kind = "missing" THEN SealRaised("load_sealed_evidence", "FileNotFoundError")
    ELSE IF file.kind = "invalid" THEN SealRaised("load_sealed_evidence", "JSONDecodeError")
    ELSE IF ~VerifySeal(file.v) THEN SealRaised("load_sealed_evidence", "ValueError")
    ELSE SealReturned("load_sealed_evidence", file.v)

\* EvidenceCollector.load_evidence(filepath): sealed["evidence"] of what the sealer loads
LoadEvidenceResult(file) ==
    LET r == LoadSealedEvidence(file)
    IN IF r.outcome # "returned" THEN SealRaised("load_evidence", r.outcome)
       ELSE SealReturned("load_evidence", GetKey(r.value, "evidence"))

CollectorName == "TargetProfiler"
CaseId == "profile_10.0.0.5_20240101_000000"
NoEvidence ==
    [evidence_id |-> "", evidence_type |-> "", data |-> Nothing, collector |-> "",
     case_id |-> "", collected_at |-> ""]

\* the entry add_to_chain appends
ChainEntry(timestamp, action, actor, notes) ==
    JDict(<<StrItem("timestamp", JStr(timestamp)), StrItem("action", JStr(action)),
            StrItem("actor", JStr(actor)), StrItem("notes", JStr(notes))>>)

\* Evidence.to_dict(): chain_of_custody is the list object self.chain itself
ToDict(ev) ==
    JDict(<<StrItem("evidence_id", JStr(ev.evidence_id)),
            StrItem("evidence_type", JStr(ev.evidence_type)),
            StrItem("data", ev.data),
            StrItem("collector", JStr(ev.collector)),
            StrItem("case_id", JStr(ev.case_id)),
            StrItem("collected_at", JStr(ev.collected_at)),
            StrItem("chain_of_custody", JRef)>>)

\* the metadata Evidence.seal() passes
SealMetadata(ev) ==
    JDict(<<StrItem("collector", JStr(ev.collector)), StrItem("case_id", JStr(ev.case_id)),
            StrItem("evidence_type", JStr(ev.evidence_type))>>)

SealIdle ==
    /\ evidence = NoEvidence
    /\ chain = <<>>
    /\ sealed = Nothing
    /\ sealedAs = Nothing
    /\ sealedFile = NoFile
    /\ sealResult = NoSealResult

(***************************************************************************)
(* NetworkScanner                                                          *)
(***************************************************************************)
\* _get_service_name(port)
ServiceName(port) ==
    CASE port = 22 -> "ssh"
      [] port = 80 -> "http"
      [] port = 443 -> "https"
      [] OTHER -> "unknown"

\* the dict scan_port starts from
NewResult(port) ==
    [port |-> port, state |-> "closed", service |-> ServiceName(port), banner |-> None,
     error |-> None, raised |-> None]

\* nothing returned yet
NoProbeResult ==
    [port |-> 0, state |-> "none", service |-> None, banner |-> None, error |-> None,
     raised |-> None]

\* the task ended with an exception that scan_port does not catch
ProbeRaised(port, exception) ==
    [port |-> port, state |-> "none", service |-> None, banner |-> None, error |-> None,
     raised |-> exception]

\* how the awaited open_connection can end, and what str(e) is for the error
ConnectOutcomes == {"connected", "TimeoutError", "ConnectionRefusedError", "OSError", "CancelledError"}
ErrorText(exception) ==
    CASE exception = "OSError" -> "Network is unreachable"
      [] exception = "ConnectionResetError" -> "Connection reset by peer"
      [] OTHER -> ""

\* the except clauses of scan_port, for an exception raised inside its try block
AfterException(result, exception) ==
    CASE exception = "TimeoutError" -> [result EXCEPT !.state = "filtered"]
      [] exception = "ConnectionRefusedError" -> [result EXCEPT !.state = "closed"]
      [] exception = "CancelledError" -> ProbeRaised(result.port, "CancelledError")
      [] OTHER -> [result EXCEPT !.state = "error", !.error = ErrorText(exception)]

\* how reader.read(1024) under wait_for can end
BannerOutcomes == {"SSH-2.0-OpenSSH", "", "TimeoutError", "ConnectionResetError", "CancelledError"}
\* the inner try: data is kept, everything else is passed over
AfterBanner(result, outcome) ==
    IF outcome \in {"", "TimeoutError", "ConnectionResetError", "CancelledError"} THEN result
    ELSE [result EXCEPT !.banner = outcome]

\* how writer.close() and wait_closed() can end
CloseOutcomes == {"closed", "ConnectionResetError", "CancelledError"}

\* a slip: the semaphore lets every task in
CanAcquireAlways(value) == TRUE

\* Semaphore.acquire does not wait when the value is positive
CanAcquire(value) == value > 0

\* valid_results = [r for r in results if isinstance(r, dict)]
ValidResults(results) == SelectSeq(results, LAMBDA r : r.raised = None)

\* a slip: the wait is over with the first task that is done
GatherFirstDone(pcs) == \E i \in 1..Len(pcs) : pcs[i] = "done"

\* await asyncio.gather(*tasks, return_exceptions=True) is over
GatherComplete(pcs) == \A i \in 1..Len(pcs) : pcs[i] = "done"

\* a slip: the last port left out
common_ports_short ==
    <<21, 22, 23, 25, 53, 80, 110, 135, 139, 143, 443, 445,
      993, 995, 1433, 1521, 3306, 3389, 5432, 5900, 8080>>

\* the list quick_scan passes on
common_ports ==
    <<21, 22, 23, 25, 53, 80, 110, 135, 139, 143, 443, 445,
      993, 995, 1433, 1521, 3306, 3389, 5432, 5900, 8080, 8443>>

\* the list full_scan passes on: list(range(1, 1025))
all_ports == [i \in 1..1024 |-> i]

ScanIdle ==
    /\ scanPhase = "idle"
    /\ scanKind = "none"
    /\ scanHost = ""
    /\ scanPorts = <<>>
    /\ maxConcurrent = 0
    /\ rateLimit = FALSE
    /\ permits = 0
    /\ probePc = <<>>
    /\ probeOutcome = <<>>
    /\ probeResult = <<>>
    /\ scanReturn = <<>>

\* the steps of profile_target, in the order of its code
Stages == <<"DNS", "SCAN", "FINGERPRINT", "OSINT", "RISK", "SEAL">>

StageIndex(stage) == CHOOSE i \in 1..Len(Stages) : Stages[i] = stage

\* a slip: the OSINT block placed before the scan block
NextStageOsintFirst(stage) ==
    CASE stage = "DNS" -> "OSINT"
      [] stage = "OSINT" -> "SCAN"
      [] stage = "SCAN" -> "FINGERPRINT"
      [] stage = "FINGERPRINT" -> "RISK"
      [] stage = "RISK" -> "SEAL"
      [] OTHER -> "done"

\* the block that follows a block of profile_target
NextStage(stage) ==
    IF StageIndex(stage) < Len(Stages) THEN Stages[StageIndex(stage) + 1] ELSE "done"

\* depth values the docstring of profile_target does not list
UnknownDepths == {"extreme", "Basic"}

\* a slip: the test written as depth != 'basic'
ScanDepthsButBasic == {"standard", "full", "deep"} \cup UnknownDepths

\* a slip: the scan block entered at every depth
ScanDepthsAll == {"basic", "standard", "full", "deep"}

\* if depth in ['standard', 'full', 'deep']
ScanDepths == {"standard", "full", "deep"}

\* if depth in ['full', 'deep']  (fingerprinting, and again OSINT)
FullDepths == {"full", "deep"}

\* the test that guards each block of profile_target
Requested(stage, depth, collect_evidence) ==
    CASE stage = "DNS" -> TRUE
      [] stage = "SCAN" -> depth \in ScanDepths
      [] stage = "FINGERPRINT" -> depth \in FullDepths
      [] stage = "OSINT" -> depth \in FullDepths
      [] stage = "RISK" -> TRUE
      [] stage = "SEAL" -> collect_evidence

\* scan_type = 'full' if depth == 'deep' else 'quick'
ScanType(depth) == IF depth = "deep" THEN "full" ELSE "quick"

\* dicts of the profile: {} , {"error": str(e)} , and the dicts the steps return
EmptyDict == [kind |-> "empty", a_records |-> <<>>, error |-> None]
ErrorDict(e) == [kind |-> "error", a_records |-> <<>>, error |-> e]
ResolvedDict(a_records) == [kind |-> "resolved", a_records |-> a_records, error |-> None]
StepDict(kind) == [kind |-> kind, a_records |-> <<>>, error |-> None]

NoScan ==
    [kind |-> "empty", host |-> "", scan_type |-> "", total_ports_scanned |-> 0,
     open_ports |-> <<>>, filtered_ports |-> <<>>, all_results |-> <<>>, error |-> None]

ScanError(e) == [NoScan EXCEPT !.kind = "error", !.error = e]

\* a slip: every result counted, those of state "error" too
ScanTargetResultCountingAll(host, scan_type, ports) ==
    [kind |-> "result", host |-> host, scan_type |-> scan_type,
     total_ports_scanned |-> Len(ports),
     open_ports |-> SelectSeq(ports, LAMBDA p : p.state = "open"),
     filtered_ports |-> SelectSeq(ports, LAMBDA p : p.state = "filtered"),
     all_results |-> ports, error |-> None]

\* the dict scan_target builds from the list its scan returned
ScanTargetResult(host, scan_type, ports) ==
    [kind |-> "result", host |-> host, scan_type |-> scan_type,
     total_ports_scanned |-> Len(SelectSeq(ports, LAMBDA p : p.state # "error")),
     open_ports |-> SelectSeq(ports, LAMBDA p : p.state = "open"),
     filtered_ports |-> SelectSeq(ports, LAMBDA p : p.state = "filtered"),
     all_results |-> ports, error |-> None]

\* TargetProfile(target, profile_depth, started_at) with the defaults of its fields
NewProfile(target, depth) ==
    [target |-> target, profile_depth |-> depth, completed_at |-> None,
     dns_info |-> EmptyDict, network_scan |-> NoScan, services |-> <<>>,
     http_fingerprint |-> EmptyDict, discovered_paths |-> <<>>, osint |-> EmptyDict,
     vulnerabilities |-> <<>>, risk_assessment |-> EmptyDict,
     evidence_sealed |-> FALSE, evidence_files |-> 0]

NoArgs ==
    [target |-> "", depth |-> "", collect_evidence |-> FALSE, dns |-> "none",
     max_concurrent_scans |-> 0, rate_limiting |-> FALSE]

\* scan_target = the first A record if there is one, else the target host
ScanTargetOf(target_host, dns_info) ==
    IF dns_info.a_records # <<>> THEN dns_info.a_records[1] ELSE target_host

HttpPorts == {80, 443, 8080, 8443}

Worker(kind, port) == [kind |-> kind, port |-> port]

\* the awaits of the fingerprinting block, in order: fingerprint_service for each of the
\* first ten open ports, fingerprint_http if a web port is open, probe_common_paths if deep
FingerprintPlan(open_ports, depth) ==
    LET first == SubSeq(open_ports, 1, IF Len(open_ports) < 10 THEN Len(open_ports) ELSE 10)
        web == \E i \in 1..Len(open_ports) : open_ports[i].port \in HttpPorts
    IN  [i \in 1..Len(first) |-> Worker("fingerprint_service", first[i].port)]
        \o (IF web THEN <<Worker("fingerprint_http", 0)>> ELSE <<>>)
        \o (IF web /\ depth = "deep" THEN <<Worker("probe_common_paths", 0)>> ELSE <<>>)

\* the three coroutines collect_osint hands to gather
OsintWorkers ==
    {Worker("collect_whois", 0), Worker("collect_subdomains_passive", 0),
     Worker("collect_wayback_urls", 0)}

ProfileIdle ==
    /\ profArgs = NoArgs
    /\ profStage = "idle"
    /\ profRunning = FALSE
    /\ profile = NewProfile("", "")
    /\ stageLog = <<>>
    /\ workers = {}
    /\ todo = <<>>
    /\ evidenceItems = <<>>
    /\ profReturn = "none"
    /\ failedStages = {}

(***************************************************************************)
(* OSINT collection (intel/osint.py).  A string is the sequence of its     *)
(* parts: "www.example.com" is <<"www.", "example.com">>.  The whois       *)
(* library, crt.sh and the Wayback Machine are inputs: each answers with   *)
(* data, with nothing, or not at all.                                      *)
(***************************************************************************)
MaxEntries == 2

SubQueries == {"collect_whois", "collect_subdomains_passive", "collect_wayback_urls"}

\* the parts of the strings, in code point order of their first characters
PartOrder == <<" ", "*.", "/a", "/b", "EXAMPLE.COM", "WWW.", "example.com", "mail.", "original", "www.">>
PartRank(part) == CHOOSE i \in 1..Len(PartOrder) : PartOrder[i] = part

\* str <= str
RECURSIVE Before(_, _)
Before(a, b) ==
    IF a = <<>> THEN TRUE
    ELSE IF b = <<>> THEN FALSE
    ELSE IF Head(a) = Head(b) THEN Before(Tail(a), Tail(b))
    ELSE PartRank(Head(a)) < PartRank(Head(b))

\* sorted(list(subdomains))
RECURSIVE Sorted(_)
Sorted(strings) ==
    IF strings = {} THEN <<>>
    ELSE LET first == CHOOSE a \in strings : \A b \in strings : Before(a, b)
         IN  <<first>> \o Sorted(strings \ {first})

\* domain in name
Contains(name, domain) ==
    \E i \in 1..(Len(name) - Len(domain) + 1) : SubSeq(name, i, i + Len(domain) - 1) = domain

\* name.replace(old, '')
RECURSIVE Replace(_, _)
Replace(name, old) ==
    IF Len(name) < Len(old) THEN name
    ELSE IF SubSeq(name, 1, Len(old)) = old THEN Replace(SubSeq(name, Len(old) + 1, Len(name)), old)
    ELSE <<Head(name)>> \o Replace(Tail(name), old)

Whitespace == {" "}

\* name.strip()
RECURSIVE Strip(_)
Strip(name) ==
    IF name = <<>> THEN name
    ELSE IF Head(name) \in Whitespace THEN Strip(Tail(name))
    ELSE IF name[Len(name)] \in Whitespace THEN Strip(SubSeq(name, 1, Len(name) - 1))
    ELSE name

\* what a remote source answered: an HTTP response, or no response at all
HttpAnswer(status, body) == [raises |-> FALSE, status |-> status, body |-> body]
Unreachable == [raises |-> TRUE, status |-> 0, body |-> <<>>]

\* one element of the JSON array of crt.sh: an object, or a value that is no object
CrtEntry(name_value) == [is_dict |-> TRUE, name_value |-> name_value]
NoObject == [is_dict |-> FALSE, name_value |-> <<>>]

\* the loop over the entries; an element without .get ends it with AttributeError
RECURSIVE CrtLoop(_, _, _)
CrtLoop(domain, data, subdomains) ==
    IF data = <<>> THEN [subdomains |-> subdomains, raised |-> FALSE]
    ELSE LET entry == Head(data)
             name == entry.name_value
             cleaned == Replace(name, <<"*.">>)
         IN  IF ~entry.is_dict THEN [subdomains |-> subdomains, raised |-> TRUE]
             ELSE IF name # <<>> /\ Contains(name, domain) /\ cleaned # <<>>
                  THEN CrtLoop(domain, Tail(data), subdomains \cup {Strip(cleaned)})
                  ELSE CrtLoop(domain, Tail(data), subdomains)

\* the values a sub-query hands to gather, and the results of gather
NoWhois == [keys |-> {}, domain |-> <<>>, registrar |-> None, name_servers |-> <<>>, error |-> ""]
DictValue(d) == [t |-> "dict", dict |-> d, list |-> <<>>, text |-> ""]
ListValue(l) == [t |-> "list", dict |-> NoWhois, list |-> l, text |-> ""]
RaisedValue(class, text) == [t |-> class, dict |-> NoWhois, list |-> <<>>, text |-> text]
Pending == [t |-> "pending", dict |-> NoWhois, list |-> <<>>, text |-> ""]

\* collect_subdomains_passive: the except clause runs when the source does not
\* answer or the loop raises
SubdomainsCaught(domain, answer) ==
    \/ answer.raises
    \/ answer.status = 200 /\ CrtLoop(domain, answer.body, {}).raised

collect_subdomains_passive(domain, answer) ==
    LET subdomains == IF answer.raises \/ answer.status # 200 THEN {}
                      ELSE CrtLoop(domain, answer.body, {}).subdomains
    IN  ListValue(Sorted(subdomains))

\* urls[:100]
WaybackLimit == 100
Take(list, n) == SubSeq(list, 1, IF Len(list) < n THEN Len(list) ELSE n)

\* [row[0] for row in data[1:] if row]
RECURSIVE FirstCells(_)
FirstCells(rows) ==
    IF rows = <<>> THEN <<>>
    ELSE IF Head(rows) # <<>> THEN <<Head(rows)[1]>> \o FirstCells(Tail(rows))
    ELSE FirstCells(Tail(rows))

collect_wayback_urls(domain, answer) ==
    LET urls == IF answer.raises \/ answer.status # 200 THEN <<>>
                ELSE FirstCells(SubSeq(answer.body, 2, Len(answer.body)))
    IN  ListValue(Take(urls, WaybackLimit))

\* what whois.whois answered: a record, or an exception
WhoisAnswer(registrar, name_servers) ==
    [raises |-> FALSE, registrar |-> registrar, name_servers |-> name_servers, error |-> ""]
WhoisRaises(text) == [raises |-> TRUE, registrar |-> None, name_servers |-> <<>>, error |-> text]

collect_whois(domain, w) ==
    DictValue([keys |-> IF w.raises THEN {"domain", "registrar", "name_servers", "error"}
                        ELSE {"domain", "registrar", "name_servers"},
               domain |-> domain,
               registrar |-> w.registrar,
               name_servers |-> w.name_servers,
               error |-> w.error])

\* isinstance(x, Exception): a CancelledError is a BaseException and no Exception
IsExceptionNever(x) == FALSE
IsException(x) == x.t = "Exception"

\* len(subdomains) raises TypeError unless subdomains is a list
LenRaises(subdomains) == ~IsException(subdomains) /\ subdomains.t # "list"

\* the result dict of collect_osint
NoOsintResult ==
    [target |-> <<>>, whois |-> Pending, subdomains |-> Pending, historical_urls |-> Pending,
     subdomain_count |-> 0]
OsintResult(target, whois_data, subdomains, wayback_urls) ==
    [target |-> target,
     whois |-> IF ~IsException(whois_data) THEN whois_data
               ELSE DictValue([NoWhois EXCEPT !.keys = {"error"}, !.error = whois_data.text]),
     subdomains |-> IF ~IsException(subdomains) THEN subdomains ELSE ListValue(<<>>),
     historical_urls |-> IF ~IsException(wayback_urls) THEN wayback_urls ELSE ListValue(<<>>),
     subdomain_count |-> IF ~IsException(subdomains) THEN Len(subdomains.list) ELSE 0]

OsintIdle ==
    /\ osintPhase = "idle"
    /\ osintTarget = <<>>
    /\ subQuery = [q \in SubQueries |-> Pending]
    /\ subHow = [q \in SubQueries |-> "pending"]
    /\ osintResult = NoOsintResult

\* the inputs of the model
OsintTargets == {<<"example.com">>}
Registrars == {None, "Example Registrar"}
WhoisAnswers ==
    {WhoisAnswer(r, IF r = None THEN <<>> ELSE << <<"mail.", "example.com">> >>) : r \in Registrars}
        \cup {WhoisRaises("No match for domain")}
NameValues ==
    {<<"www.", "example.com">>, <<"WWW.", "example.com">>, <<"*.", "example.com">>,
     <<"*.", "www.", "example.com">>, <<"www.", "example.com", " ">>, <<"www.", "EXAMPLE.COM">>,
     <<>>}
CrtEntries == {CrtEntry(n) : n \in NameValues} \cup {NoObject}
RECURSIVE ListsOf(_, _)
ListsOf(items, n) ==
    IF n = 0 THEN {<<>>}
    ELSE ListsOf(items, n - 1) \cup {Append(l, e) : l \in ListsOf(items, n - 1), e \in items}
CrtAnswers ==
    {HttpAnswer(200, body) : body \in ListsOf(CrtEntries, MaxEntries)}
        \cup {HttpAnswer(503, <<>>), Unreachable}
HeaderRow == << <<"original">> >>
UrlRow(path) == << <<"example.com", path>> >>
WaybackAnswers ==
    {HttpAnswer(200, body) :
        body \in {<<>>, <<HeaderRow>>, <<HeaderRow, UrlRow("/a")>>, <<HeaderRow, <<>>, UrlRow("/a")>>,
                  <<HeaderRow, UrlRow("/b"), UrlRow("/a")>>}}
        \cup {HttpAnswer(503, <<>>), Unreachable}
ExceptionClasses == {"Exception", "CancelledError"}

(***************************************************************************)
(* DNS resolution (utils/networking.py).  A target is the sequence of its  *)
(* dot-separated labels.  The resolver and the reverse lookup are inputs.  *)
(***************************************************************************)
Octets == {"93", "184", "216", "34"}
Ipv6Literals == {<<"::1">>}
HostLabels == Octets \cup {"999", "example", "com"}

\* ipaddress.ip_address(ip) does not raise ValueError
is_valid_ip(ip) ==
    \/ Len(ip) = 4 /\ \A i \in 1..4 : ip[i] \in Octets
    \/ ip \in Ipv6Literals

\* the pattern of dot-separated labels of letters, digits and inner hyphens
is_valid_domain(domain) ==
    /\ domain # <<>>
    /\ \A i \in 1..Len(domain) : domain[i] \in HostLabels

RecordTypes == <<"A", "AAAA", "MX", "TXT", "NS", "CNAME">>
RecordTypeSet == {RecordTypes[i] : i \in 1..Len(RecordTypes)}
Absent == "<absent>"

\* the result dict resolve_target starts from
NewResolveResult(target) ==
    [target |-> target,
     is_ip |-> is_valid_ip(target),
     is_domain |-> is_valid_domain(target),
     records |-> [r \in RecordTypeSet |-> <<>>],
     hostname |-> Absent]

\* the list a successful lookup stores: one text per rdata of the answer
Rdata(rdtype) ==
    CASE rdtype = "A" -> <<"93.184.216.34">>
      [] rdtype = "AAAA" -> <<"2606:2800:220:1::1">>
      [] rdtype = "MX" -> <<"10 mail.example.com.">>
      [] rdtype = "TXT" -> <<"v=spf1 -all">>
      [] rdtype = "NS" -> <<"a.iana-servers.net.", "b.iana-servers.net.">>
      [] rdtype = "CNAME" -> <<"example.com.">>

\* the branch resolve_target takes after building the result dict
FirstStep(result) ==
    IF result.is_ip THEN "reverse" ELSE IF result.is_domain THEN "resolver" ELSE "return"

\* the lookup after the one of rdtype
AfterLookup(rdtype) ==
    LET i == CHOOSE k \in 1..Len(RecordTypes) : RecordTypes[k] = rdtype
    IN  IF i < Len(RecordTypes) THEN RecordTypes[i + 1] ELSE "return"

\* except Exception: pass
AfterLookupError(rdtype) == AfterLookup(rdtype)

\* except (socket.herror, socket.gaierror)
ReverseCaught(error) == error \in {"herror", "gaierror"}

DnsIdle ==
    /\ resolvePc = "idle"
    /\ resolveTarget = <<>>
    /\ resolveResult = NewResolveResult(<<>>)
    /\ lookups = [r \in RecordTypeSet \cup {"reverse", "resolver"} |-> "not tried"]

\* the inputs of the model
ResolveTargets ==
    {<<"93", "184", "216", "34">>, <<"::1">>, <<"example", "com">>, <<"999", "1", "1", "1">>,
     <<"exa mple">>, <<>>}
LookupErrors == {"NXDOMAIN", "Timeout"}
ReverseErrors == {"herror", "gaierror", "OSError"}

(***************************************************************************)
(* Risk assessment: the VulnerabilityDatabase that profile_target calls    *)
(* in its fifth step.  Its module is not among the sources; the operators  *)
(* below follow section 4.4 of the specification, with a sample policy     *)
(* table.                                                                  *)
(***************************************************************************)
MaxVulns == 4

Severities == <<"low", "medium", "high", "critical">>
SeveritySet == {Severities[i] : i \in 1..Len(Severities)}
SeverityRank(severity) == CHOOSE i \in 1..Len(Severities) : Severities[i] = severity
Vulnerability(technology, severity) == [technology |-> technology, severity |-> severity]

\* the static table keyed by technology name
VulnTable(technology) ==
    CASE technology = "WordPress" -> <<Vulnerability("WordPress", "high")>>
      [] technology = "Apache" -> <<Vulnerability("Apache", "medium")>>
      [] technology = "OpenSSL" -> <<Vulnerability("OpenSSL", "critical")>>
      [] OTHER -> <<>>

RECURSIVE match_vulnerabilities(_)
match_vulnerabilities(technologies) ==
    IF technologies = <<>> THEN <<>>
    ELSE VulnTable(Head(technologies)) \o match_vulnerabilities(Tail(technologies))

\* the policy table: the weight of each contributing factor
HighRiskPorts == {21, 23, 3389}
SecurityHeaders == {"Strict-Transport-Security", "Content-Security-Policy"}
FactorWeight == [high_risk_port |-> 15, missing_header |-> 5, no_encryption |-> 15]
SeverityWeight == [low |-> 5, medium |-> 10, high |-> 20, critical |-> 30]
LevelTable ==
    <<[at_least |-> 80, level |-> "CRITICAL"], [at_least |-> 60, level |-> "HIGH"],
      [at_least |-> 40, level |-> "MEDIUM"], [at_least |-> 20, level |-> "LOW"]>>
MaxScore == 100

RECURSIVE SumSeverity(_)
SumSeverity(vulnerabilities) ==
    IF vulnerabilities = <<>> THEN 0
    ELSE SeverityWeight[Head(vulnerabilities).severity] + SumSeverity(Tail(vulnerabilities))

\* the weighted sum over the contributing factors
WeightedSum(profile_dict) ==
    FactorWeight.high_risk_port * Cardinality(profile_dict.open_ports \cap HighRiskPorts)
        + FactorWeight.missing_header * Cardinality(SecurityHeaders \ profile_dict.security_headers)
        + SumSeverity(profile_dict.vulnerabilities)
        + (IF 443 \in profile_dict.open_ports THEN 0 ELSE FactorWeight.no_encryption)

\* the score is kept within 0..100
ClampScoreNone(sum) == sum
ClampScore(sum) == IF sum > MaxScore THEN MaxScore ELSE IF sum < 0 THEN 0 ELSE sum

RECURSIVE LevelFrom(_, _)
LevelFrom(table, score) ==
    IF table = <<>> THEN "MINIMAL"
    ELSE IF score >= Head(table).at_least THEN Head(table).level
    ELSE LevelFrom(Tail(table), score)

assess_risk_score(profile_dict) ==
    [score |-> ClampScore(WeightedSum(profile_dict)),
     level |-> LevelFrom(LevelTable, ClampScore(WeightedSum(profile_dict)))]

\* the parts of profile.to_dict() the assessment reads
RiskProfile(open_ports, security_headers, technologies, vulnerabilities) ==
    [open_ports |-> open_ports, security_headers |-> security_headers,
     technologies |-> technologies, vulnerabilities |-> vulnerabilities]
NoRiskResult == [score |-> 0, level |-> "UNKNOWN"]

RiskIdle ==
    /\ riskProfile = RiskProfile({}, {}, <<>>, <<>>)
    /\ riskResult = NoRiskResult
    /\ riskOp = "none"

\* the inputs of the model
RiskPorts == {23, 443, 3389}
TechnologyLists ==
    {<<>>, <<"nginx">>, <<"Apache">>, <<"WordPress">>, <<"OpenSSL">>, <<"Apache", "WordPress">>,
     <<"Apache", "Apache">>, <<"Apache", "WordPress", "OpenSSL">>}

(***************************************************************************)
(* Technology detection (intel/service_fingerprint.py).  A body is the set *)
(* of the words that occur in it, a header value the sequence of its       *)
(* parts.                                                                  *)
(***************************************************************************)
\* the detection patterns, in the order of the dict
patterns ==
    <<[name |-> "WordPress", pattern_list |-> <<"wp-content", "wordpress">>],
      [name |-> "Joomla", pattern_list |-> <<"joomla", "/components/com_">>],
      [name |-> "Drupal", pattern_list |-> <<"drupal", "sites/default">>],
      [name |-> "Laravel", pattern_list |-> <<"laravel">>],
      [name |-> "Django", pattern_list |-> <<"csrfmiddlewaretoken", "__admin">>],
      [name |-> "React", pattern_list |-> <<"react", "data-reactroot">>],
      [name |-> "Angular", pattern_list |-> <<"ng-app", "angular">>],
      [name |-> "Vue.js", pattern_list |-> <<"vue", "data-v-">>],
      [name |-> "jQuery", pattern_list |-> <<"jquery">>],
      [name |-> "Bootstrap", pattern_list |-> <<"bootstrap">>],
      [name |-> "PHP", pattern_list |-> <<".php">>],
      [name |-> "ASP.NET", pattern_list |-> <<"__VIEWSTATE", "ASP.NET">>]>>

\* the case folding of re.IGNORECASE
FoldCase(word) ==
    CASE word = "WordPress" -> "wordpress"
      [] word = "__VIEWSTATE" -> "__viewstate"
      [] word = "ASP.NET" -> "asp.net"
      [] word = "jQuery" -> "jquery"
      [] OTHER -> word

\* re.search(pattern, body, re.IGNORECASE)
Search(pattern, body) == \E word \in body : FoldCase(word) = FoldCase(pattern)

\* the first pattern of the list that matches decides, then break
AnyPattern(pattern_list, body) == \E i \in 1..Len(pattern_list) : Search(pattern_list[i], body)

Technology(name, version, confidence) ==
    [name |-> name, version |-> version, confidence |-> confidence]

\* the loop over patterns.items()
RECURSIVE BodyTechnologies(_, _)
BodyTechnologies(table, body) ==
    IF table = <<>> THEN <<>>
    ELSE (IF AnyPattern(Head(table).pattern_list, body)
          THEN <<Technology(Head(table).name, <<>>, "medium")>> ELSE <<>>)
         \o BodyTechnologies(Tail(table), body)

\* 'PHP' in powered_by
InValue(part, value) == \E i \in 1..Len(value) : value[i] = part

\* the hints of X-Powered-By and Server; a header that is absent has the value <<>>
PoweredByTechnologies(powered_by) ==
    IF powered_by = <<>> THEN <<>>
    ELSE IF InValue("PHP", powered_by) THEN <<Technology("PHP", powered_by, "high")>>
    ELSE IF InValue("ASP.NET", powered_by) THEN <<Technology("ASP.NET", <<>>, "high")>>
    ELSE <<>>
ServerTechnologies(server) ==
    IF server = <<>> THEN <<>>
    ELSE IF InValue("Apache", server) THEN <<Technology("Apache", server, "high")>>
    ELSE IF InValue("nginx", server) THEN <<Technology("nginx", server, "high")>>
    ELSE IF InValue("Microsoft-IIS", server) THEN <<Technology("IIS", server, "high")>>
    ELSE <<>>

Headers(powered_by, server) == [powered_by |-> powered_by, server |-> server]

_detect_technologies(body, headers) ==
    BodyTechnologies(patterns, body) \o PoweredByTechnologies(headers.powered_by)
        \o ServerTechnologies(headers.server)

DetectIdle ==
    /\ techBody = {}
    /\ techHeaders = Headers(<<>>, <<>>)
    /\ detected = <<>>
    /\ techDone = FALSE

\* the inputs of the model
BodyWords == {"wp-content", "WordPress", ".php", "jQuery", "__viewstate", "hello"}
PoweredByValues == {<<>>, <<"PHP", "/8.1">>, <<"ASP.NET">>, <<"Express">>}
ServerValues ==
    {<<>>, <<"Apache", "/2.4">>, <<"nginx", "/1.18">>, <<"Microsoft-IIS", "/10.0">>, <<"gws">>}

(***************************************************************************)
(* Path probing (intel/service_fingerprint.py), against stubs of the       *)
(* remote host                                                             *)
(***************************************************************************)
common_paths ==
    <<"/admin", "/administrator", "/login", "/wp-admin", "/phpmyadmin", "/dashboard",
      "/admin.php", "/manager", "/console", "/.git", "/.env", "/robots.txt", "/sitemap.xml">>

\* what session.get gives for a path: a response with a status, or an exception
Response(status) == [raises |-> FALSE, status |-> status]
GetRaises == [raises |-> TRUE, status |-> 0]

\* the remote hosts of the model
PathHosts == {"nothing", "everything", "refuses", "site", "edge"}
Answer(host, path) ==
    CASE host = "nothing" -> Response(404)
      [] host = "everything" -> Response(200)
      [] host = "refuses" -> GetRaises
      [] host = "site" ->
            IF path \in {"/login", "/robots.txt"} THEN Response(200)
            ELSE IF path = "/admin" THEN Response(302)
            ELSE IF path = "/.env" THEN Response(403)
            ELSE Response(404)
      [] host = "edge" ->
            IF path = "/admin" THEN Response(399)
            ELSE IF path = "/administrator" THEN Response(400)
            ELSE IF path \in {"/login", "/sitemap.xml"} THEN GetRaises
            ELSE IF path = "/.git" THEN Response(301)
            ELSE Response(500)

\* response.status < 400
DiscoverableUpTo400(status) == status <= 400
Discoverable(status) == status < 400

\* urljoin(base_url, path) for a base URL without a path
BaseUrl == "http://example.com:80"
UrlJoin(base_url, path) == <<base_url, path>>

Discovery(path, status) == [path |-> path, url |-> UrlJoin(BaseUrl, path), status |-> status]
PathEvent(event, path) == [event |-> event, path |-> path]

PathIdle ==
    /\ pathPc = "idle"
    /\ pathIndex = 0
    /\ pathHost = "none"
    /\ pathInFlight = {}
    /\ pathLog = <<>>
    /\ discovered = <<>>

(***************************************************************************)
(* log_action when open() or the write raises OSError                      *)
(***************************************************************************)
NoReturn == [outcome |-> "none", hash |-> None]
ReturnedHash(current_hash) == [outcome |-> "returned", hash |-> current_hash]
RaisedOSError == [outcome |-> "OSError", hash |-> None]

\* the text of a record appended to an incomplete line: no JSON, the record is in it
MergedLine(obj) == [kind |-> "invalid", obj |-> obj]

\* the file after f.write(json.dumps(entry) + '\n') has gone through
StoreLine(lines, torn, entry) ==
    IF torn THEN [lines EXCEPT ![Len(lines)] = MergedLine(entry)]
    ELSE AppendLine(lines, entry)

WriteIdle ==
    /\ tornTail = FALSE
    /\ logReturn = NoReturn

(***************************************************************************)
(* EvidenceCollector: collect and save_all                                 *)
(***************************************************************************)
MaxItems == 3
MaxClock == 1

EvidenceTypes == {"osint", "network_scan"}

\* datetime.utcnow().strftime('%Y%m%d_%H%M%S') in second now
Strftime(now) == IF now = 0 THEN "20240101_000000" ELSE "20240101_00000" \o ToString(now)

\* evidence_id = f"{evidence_type}_{...}" when the caller gives none
DefaultEvidenceId(evidence_type, now) == evidence_type \o "_" \o Strftime(now)

\* the ids a caller passes: none, an id of its own, or one shaped like a default id
CustomIds == {None, "exhibit-A", DefaultEvidenceId("osint", 0)}

\* the id collect gives the Evidence object
EvidenceId(evidence_type, evidence_id, now) ==
    IF evidence_id = None THEN DefaultEvidenceId(evidence_type, now) ELSE evidence_id

\* an Evidence object: object is its identity
NewEvidence(object, evidence_id, evidence_type) ==
    [object |-> object, evidence_id |-> evidence_id, evidence_type |-> evidence_type]

\* seal_and_save: filename = f"{evidence.evidence_id}.sealed"
SealedName(item) == item.evidence_id \o ".sealed"

\* save_sealed_evidence: open(filepath, 'w') replaces a file of that name
WriteFile(dir, name, object) == {f \in dir : f[1] # name} \cup {<<name, object>>}

\* saved[evidence.evidence_id] = filepath
SetItem(mapping, key, value) == {e \in mapping : e[1] # key} \cup {<<key, value>>}

\* the loop of save_all from item i on
RECURSIVE SaveFrom(_, _, _, _)
SaveFrom(items, i, dir, mapping) ==
    IF i > Len(items) THEN [dir |-> dir, saved |-> mapping]
    ELSE SaveFrom(items, i + 1,
                  WriteFile(dir, SealedName(items[i]), items[i].object),
                  SetItem(mapping, items[i].evidence_id, SealedName(items[i])))

CollectorIdle ==
    /\ utcnow = 0
    /\ created = 0
    /\ evidence_items = <<>>
    /\ evidence_dir = {}
    /\ saved = {}
    /\ collectorOp = "__init__"

IntelIdle == ScanIdle /\ ProfileIdle /\ OsintIdle /\ DnsIdle /\ RiskIdle /\ DetectIdle /\ PathIdle /\ WriteIdle /\ CollectorIdle

AuditInit ==
    /\ auditExists = FALSE
    /\ auditFile = <<>>
    /\ previousHash = [l \in Loggers |-> NoInstance]
    /\ verifyResult = NoResult
    /\ lastOp = "init"
    /\ tamperCount = 0

ConcIdle ==
    /\ pc = [t \in Threads |-> "idle"]
    /\ pending = [t \in Threads |-> <<>>]

\* AuditLogger(audit_file): a new instance on the (possibly existing) file
Construct(l) ==
    /\ previousHash' = [previousHash EXCEPT ![l] = Genesis]
    /\ lastOp' = "construct"
    /\ verifyResult' = NoResult
    /\ UNCHANGED <<auditExists, auditFile, tamperCount, pc, pending>>
    /\ UNCHANGED <<sealVars, intelVars>>

LogAction(l, maxLen) ==
    /\ previousHash[l] # NoInstance
    /\ Len(auditFile) < maxLen
    /\ \E timestamp \in Timestamps, caller \in Callers, target \in Targets,
          action \in ActionNames, result \in Outcomes :
          LET user == caller[1]
              auth_token == caller[2]
              entry == NewEntry(timestamp, user, target, action, result, auth_token, previousHash[l])
              current_hash == EntryHash(entry)
          IN /\ auditFile' = AppendLine(auditFile, DictSet(entry, "hash", current_hash))
             /\ previousHash' = [previousHash EXCEPT ![l] = current_hash]
    /\ auditExists' = TRUE
    /\ lastOp' = "log_action"
    /\ verifyResult' = NoResult
    /\ UNCHANGED <<tamperCount, pc, pending>>
    /\ UNCHANGED <<sealVars, intelVars>>

VerifyIntegrity(l) ==
    /\ previousHash[l] # NoInstance
    /\ verifyResult' = VerifyIntegrityResult(auditExists, auditFile)
    /\ lastOp' = "verify_integrity"
    /\ UNCHANGED <<auditExists, auditFile, previousHash, tamperCount, pc, pending>>
    /\ UNCHANGED <<sealVars, intelVars>>

Init == AuditInit /\ ConcIdle /\ SealIdle /\ IntelIdle

Next ==
    \/ \E l \in Loggers : Construct(l)
    \/ \E l \in Loggers : LogAction(l, MaxLog)
    \/ \E l \in Loggers : VerifyIntegrity(l)

Spec == Init /\ [][Next]_vars

(***************************************************************************)
(* Outside modification of the stored audit file                           *)
(***************************************************************************)
EntryKeys == {"timestamp", "user", "target", "action", "result", "auth_token", "previous_hash", "hash"}

StoredHashes(lines) ==
    {lines[i].obj["hash"] : i \in {j \in 1..Len(lines) : lines[j].kind = "object" /\ "hash" \in DOMAIN lines[j].obj}}

\* the values an outside writer may give a field of the object obj
FieldValues(f, obj, lines) ==
    CASE f = "user" -> Users \cup {"mallory"}
      [] f = "target" -> Targets \cup {"10.0.0.9"}
      [] f = "action" -> ActionNames \cup {"exploit"}
      [] f = "result" -> Outcomes \cup {"denied"}
      [] f = "auth_token" -> AuthTokens
      [] f = "timestamp" -> Timestamps \cup {"1999-12-31T23:59:59"}
      [] f = "previous_hash" -> {Genesis, "bogus"} \cup StoredHashes(lines)
      [] f = "hash" -> {"bogus", CalculatedHash(obj)} \cup StoredHashes(lines)

Tampered ==
    /\ tamperCount < MaxTamper
    /\ tamperCount' = tamperCount + 1
    /\ lastOp' = "tamper"
    /\ verifyResult' = NoResult
    /\ UNCHANGED <<auditExists, previousHash, pc, pending>>
    /\ UNCHANGED <<sealVars, intelVars>>

\* an existing field of record k gets another value
TamperField(k, f) ==
    /\ auditFile[k].kind = "object"
    /\ f \in DOMAIN auditFile[k].obj
    /\ \E v \in FieldValues(f, auditFile[k].obj, auditFile) \ {auditFile[k].obj[f]} :
          auditFile' = [auditFile EXCEPT ![k] = ObjectLine(DictSet(auditFile[k].obj, f, v))]
    /\ Tampered

\* a field of record k is removed
TamperDropField(k, f) ==
    /\ auditFile[k].kind = "object"
    /\ f \in DOMAIN auditFile[k].obj
    /\ auditFile' = [auditFile EXCEPT ![k] = ObjectLine(DictPop(auditFile[k].obj, f))]
    /\ Tampered

\* record k is replaced by a JSON value that is no object, or by text that is no JSON
TamperReplaceLine(k) ==
    /\ \E ln \in {ValueLine, InvalidLine} \ {auditFile[k]} :
          auditFile' = [auditFile EXCEPT ![k] = ln]
    /\ Tampered

\* record k is removed from the file
TamperRemoveLine(k) ==
    /\ auditFile' = [i \in 1..(Len(auditFile) - 1) |-> IF i < k THEN auditFile[i] ELSE auditFile[i + 1]]
    /\ Tampered

NextTamper ==
    \/ LogAction("L1", MaxTamperLog)
    \/ VerifyIntegrity("L1")
    \/ \E k \in 1..Len(auditFile), f \in EntryKeys : TamperField(k, f)
    \/ \E k \in 1..Len(auditFile), f \in EntryKeys : TamperDropField(k, f)
    \/ \E k \in 1..Len(auditFile) : TamperReplaceLine(k)
    \/ \E k \in 1..Len(auditFile) : TamperRemoveLine(k)


(***************************************************************************)
(* Two threads calling log_action on one AuditLogger instance.  The method *)
(* takes no lock: a thread can be switched out between building the entry  *)
(* (which reads _previous_hash), writing the line and updating             *)
(* _previous_hash.                                                         *)
(***************************************************************************)
\* one instance has been constructed on a file that does not exist yet
InitOneLogger ==
    /\ auditExists = FALSE
    /\ auditFile = <<>>
    /\ previousHash = [l \in Loggers |-> IF l = "L1" THEN Genesis ELSE NoInstance]
    /\ verifyResult = NoResult
    /\ lastOp = "construct"
    /\ tamperCount = 0
    /\ ConcIdle
    /\ SealIdle
    /\ IntelIdle

InFlight == {t \in Threads : pc[t] = "write"}

\* log_action up to the hash computation: the entry, with previous_hash as read now
BuildEntry(t) ==
    /\ pc[t] = "idle"
    /\ Len(auditFile) + Cardinality(InFlight) < MaxConcLog
    /\ \E timestamp \in Timestamps, caller \in Callers, target \in Targets,
          action \in ActionNames, result \in Outcomes :
          LET entry == NewEntry(timestamp, caller[1], target, action, result, caller[2],
                                previousHash["L1"])
          IN pending' = [pending EXCEPT ![t] = DictSet(entry, "hash", EntryHash(entry))]
    /\ pc' = [pc EXCEPT ![t] = "write"]
    /\ UNCHANGED auditVars
    /\ UNCHANGED <<sealVars, intelVars>>

\* the with-block: the line is appended
WriteEntry(t) ==
    /\ pc[t] = "write"
    /\ auditFile' = AppendLine(auditFile, pending[t])
    /\ auditExists' = TRUE
    /\ pc' = [pc EXCEPT ![t] = "update"]
    /\ UNCHANGED <<previousHash, verifyResult, lastOp, tamperCount, pending>>
    /\ UNCHANGED <<sealVars, intelVars>>

\* self._previous_hash = current_hash, and the return
UpdatePointer(t) ==
    /\ pc[t] = "update"
    /\ previousHash' = [previousHash EXCEPT !["L1"] = pending[t]["hash"]]
    /\ lastOp' = "log_action"
    /\ pc' = [pc EXCEPT ![t] = "idle"]
    /\ pending' = [pending EXCEPT ![t] = <<>>]
    /\ UNCHANGED <<auditExists, auditFile, verifyResult, tamperCount>>
    /\ UNCHANGED <<sealVars, intelVars>>

NextConc ==
    \/ \E t \in Threads : BuildEntry(t)
    \/ \E t \in Threads : WriteEntry(t)
    \/ \E t \in Threads : UpdatePointer(t)

SpecConc == InitOneLogger /\ [][NextConc]_vars
SpecTamper == InitOneLogger /\ [][NextTamper]_vars

(***************************************************************************)
(* Sealing, saving, loading and changing evidence                          *)
(***************************************************************************)
MaxChain == 2

PortMap == JDict(<<Item(IntKey(80), JStr("http")), Item(IntKey(443), JStr("https"))>>)
Banner == JStr("SSH-2.0-OpenSSH")
Resolution == JDict(<<StrItem("ip", JStr("10.0.0.5"))>>)
\* the (data, metadata) arguments of the direct calls of seal_evidence
SealInputs ==
    {<<Banner, JNull>>, <<Resolution, JDict(<<StrItem("collector", JStr("analyst"))>>)>>,
     <<PortMap, JDict(<<>>)>>}
OtherTimestamp == "1999-12-31T23:59:59"



\* the in-memory package with the reference to Evidence.chain followed
SealedNow == Resolve(sealed, chain)

\* EvidenceSealer.seal_evidence(data, metadata) called directly
SealEvidence(data, metadata) ==
    /\ sealed = Nothing
    /\ \E timestamp \in Timestamps :
          sealed' = SealEvidenceResult(data, metadata, timestamp, chain)
    /\ sealedAs' = GetKey(Resolve(sealed', chain), "evidence")
    /\ sealResult' = NoSealResult
    /\ lastOp' = "seal_evidence"
    /\ UNCHANGED <<evidence, chain, sealedFile, tamperCount>>
    /\ UNCHANGED <<auditCore, intelVars>>

\* EvidenceCollector.collect(evidence_type, data): a new Evidence, with its first
\* chain entry
Collect(data) ==
    /\ evidence = NoEvidence
    /\ \E timestamp \in Timestamps :
          /\ evidence' = [evidence_id |-> "dns_resolution_20240101_000000",
                          evidence_type |-> "dns_resolution", data |-> data,
                          collector |-> CollectorName, case_id |-> CaseId,
                          collected_at |-> timestamp]
          /\ chain' = <<ChainEntry(timestamp, "collected", CollectorName, "")>>
    /\ sealResult' = NoSealResult
    /\ lastOp' = "collect"
    /\ UNCHANGED <<sealed, sealedAs, sealedFile, tamperCount>>
    /\ UNCHANGED <<auditCore, intelVars>>

\* Evidence.seal()
EvidenceSeal ==
    /\ evidence # NoEvidence
    /\ sealed = Nothing
    /\ \E timestamp \in Timestamps :
          sealed' = SealEvidenceResult(ToDict(evidence), SealMetadata(evidence), timestamp, chain)
    /\ sealedAs' = GetKey(Resolve(sealed', chain), "evidence")
    /\ sealResult' = NoSealResult
    /\ lastOp' = "seal"
    /\ UNCHANGED <<evidence, chain, sealedFile, tamperCount>>
    /\ UNCHANGED <<auditCore, intelVars>>

\* Evidence.add_to_chain(action, actor)
AddToChain(action) ==
    /\ evidence # NoEvidence
    /\ Len(chain) < MaxChain
    /\ \E timestamp \in Timestamps :
          chain' = Append(chain, ChainEntry(timestamp, action, "analyst", ""))
    /\ sealResult' = NoSealResult
    /\ lastOp' = "add_to_chain"
    /\ UNCHANGED <<evidence, sealed, sealedAs, sealedFile, tamperCount>>
    /\ UNCHANGED <<auditCore, intelVars>>

\* EvidenceSealer.save_sealed_evidence(sealed, filepath)
SaveSealed ==
    /\ sealed # Nothing
    /\ sealedFile' = SavedFile(SealedNow)
    /\ sealResult' = NoSealResult
    /\ lastOp' = "save_sealed_evidence"
    /\ UNCHANGED <<evidence, chain, sealed, sealedAs, tamperCount>>
    /\ UNCHANGED <<auditCore, intelVars>>

\* EvidenceCollector.seal_and_save(evidence): seal, save, then a chain entry
SealAndSave ==
    /\ evidence # NoEvidence
    /\ Len(chain) < MaxChain
    /\ \E timestamp \in Timestamps :
          /\ sealedFile' = SavedFile(Resolve(SealEvidenceResult(ToDict(evidence),
                                         SealMetadata(evidence), timestamp, chain), chain))
          /\ chain' = Append(chain, ChainEntry(timestamp, "sealed_and_saved", CollectorName,
                                               "Saved to evidence/dns_resolution_20240101_000000.sealed"))
    /\ sealResult' = NoSealResult
    /\ lastOp' = "seal_and_save"
    /\ UNCHANGED <<evidence, sealed, sealedAs, tamperCount>>
    /\ UNCHANGED <<auditCore, intelVars>>

\* EvidenceSealer.verify_seal(sealed) on the package in memory
VerifySealCall ==
    /\ sealed # Nothing
    /\ sealResult' = [op |-> "verify_seal",
                      outcome |-> IF VerifySeal(SealedNow) THEN "true" ELSE "false",
                      value |-> Nothing]
    /\ lastOp' = "verify_seal"
    /\ UNCHANGED <<evidence, chain, sealed, sealedAs, sealedFile, tamperCount>>
    /\ UNCHANGED <<auditCore, intelVars>>

\* EvidenceSealer.load_sealed_evidence(filepath)
LoadSealed ==
    /\ sealResult' = LoadSealedEvidence(sealedFile)
    /\ lastOp' = "load_sealed_evidence"
    /\ UNCHANGED <<evidence, chain, sealed, sealedAs, sealedFile, tamperCount>>
    /\ UNCHANGED <<auditCore, intelVars>>

\* EvidenceCollector.load_evidence(filepath)
LoadEvidence ==
    /\ sealResult' = LoadEvidenceResult(sealedFile)
    /\ lastOp' = "load_evidence"
    /\ UNCHANGED <<evidence, chain, sealed, sealedAs, sealedFile, tamperCount>>
    /\ UNCHANGED <<auditCore, intelVars>>

\* a holder of the in-memory package assigns to a part of its envelope
Mutated(envelope) ==
    /\ sealed # Nothing
    /\ tamperCount < MaxTamper
    /\ envelope # GetKey(sealed, "evidence")
    /\ sealed' = SetKey(sealed, "evidence", envelope)
    /\ tamperCount' = tamperCount + 1
    /\ sealResult' = NoSealResult
    /\ lastOp' = "mutate"
    /\ UNCHANGED <<evidence, chain, sealedAs, sealedFile>>
    /\ UNCHANGED <<auditCore, intelVars>>

\* the payload: envelope["data"], or envelope["data"]["data"] when Evidence.seal() made it
MutateData(data) ==
    /\ sealed # Nothing
    /\ LET envelope == GetKey(sealed, "evidence")
           outer == GetKey(envelope, "data")
       IN IF HasKey(outer, "chain_of_custody")
          THEN Mutated(SetKey(envelope, "data", SetKey(outer, "data", data)))
          ELSE Mutated(SetKey(envelope, "data", data))

MutateMetadata(metadata) ==
    /\ sealed # Nothing
    /\ Mutated(SetKey(GetKey(sealed, "evidence"), "metadata", metadata))

MutateTimestamp ==
    /\ sealed # Nothing
    /\ Mutated(SetKey(GetKey(sealed, "evidence"), "timestamp", JStr(OtherTimestamp)))

\* the .sealed file is modified from outside
FileTampered(file) ==
    /\ sealedFile.kind = "json"
    /\ tamperCount < MaxTamper
    /\ file # sealedFile
    /\ sealedFile' = file
    /\ tamperCount' = tamperCount + 1
    /\ sealResult' = NoSealResult
    /\ lastOp' = "tamper"
    /\ UNCHANGED <<evidence, chain, sealed, sealedAs>>
    /\ UNCHANGED <<auditCore, intelVars>>

TamperFileData(data) ==
    /\ HasKey(sealedFile.v, "evidence")
    /\ FileTampered(JsonFile(SetKey(sealedFile.v, "evidence",
                                    SetKey(GetKey(sealedFile.v, "evidence"), "data", Reload(data)))))

TamperFileSeal(hash) ==
    /\ HasKey(sealedFile.v, "seal")
    /\ FileTampered(JsonFile(SetKey(sealedFile.v, "seal",
                                    SetKey(GetKey(sealedFile.v, "seal"), "hash", hash))))

TamperFileDrop(section) ==
    /\ sealedFile.kind = "json"
    /\ \/ FileTampered(JsonFile(DelKey(sealedFile.v, section)))
       \/ /\ section = "seal"
          /\ HasKey(sealedFile.v, "seal")
          /\ FileTampered(JsonFile(SetKey(sealedFile.v, "seal",
                                          DelKey(GetKey(sealedFile.v, "seal"), "hash"))))

TamperFileReplace ==
    /\ sealedFile.kind = "json"
    /\ \E file \in {GarbageFile, JsonFile(JList(<<>>))} :
          FileTampered(file)

NextSeal ==
    \/ \E input \in SealInputs : SealEvidence(input[1], input[2])
    \/ \E data \in {Resolution, PortMap} : Collect(data)
    \/ EvidenceSeal
    \/ \E action \in {"transferred"} : AddToChain(action)
    \/ SaveSealed
    \/ SealAndSave
    \/ VerifySealCall
    \/ LoadSealed
    \/ LoadEvidence
    \/ \E data \in {Banner, PortMap} : MutateData(data)
    \/ \E metadata \in {JDict(<<StrItem("collector", JStr("mallory"))>>)} : MutateMetadata(metadata)
    \/ MutateTimestamp
    \/ \E data \in {Banner} : TamperFileData(data)
    \/ \E hash \in {JStr("bogus")} : TamperFileSeal(hash)
    \/ \E section \in {"evidence", "seal"} : TamperFileDrop(section)
    \/ TamperFileReplace

SpecSeal == Init /\ [][NextSeal]_vars

(***************************************************************************)
(* NetworkScanner.scan_ports: one task per requested port, all run by the  *)
(* event loop; a task gives up control only where it awaits.               *)
(***************************************************************************)
MaxPorts == 2
MaxConcurrency == 2

\* the lists of ports scan_ports is called with
PortLists == {SubSeq(<<22, 9999, 80>>, 1, n) : n \in 0..MaxPorts}

restVars == <<auditVars, concVars, sealVars, profVars, osintVars, dnsVars, riskVars, fpVars, pathVars, writeVars, collectorVars>>

\* scan_ports(host, ports) on NetworkScanner(rate_limit, max_concurrent), up to gather
StartScanPorts(kind, host, ports, max_concurrent, rate_limit) ==
    /\ scanPhase' = "running"
    /\ scanKind' = kind
    /\ scanHost' = host
    /\ scanPorts' = ports
    /\ maxConcurrent' = max_concurrent
    /\ rateLimit' = rate_limit
    /\ permits' = max_concurrent
    /\ probePc' = [i \in 1..Len(ports) |-> "created"]
    /\ probeOutcome' = [i \in 1..Len(ports) |-> "none"]
    /\ probeResult' = [i \in 1..Len(ports) |-> NoProbeResult]
    /\ UNCHANGED scanReturn

CallScanPorts(ports, max_concurrent, rate_limit) ==
    /\ scanPhase = "idle"
    /\ StartScanPorts("scan_ports", "10.0.0.5", ports, max_concurrent, rate_limit)
    /\ UNCHANGED restVars

\* a slip: the slot given back only by a task that ends without an error
FinishedKeepingSlot(i, result) ==
    /\ probePc' = [probePc EXCEPT ![i] = "done"]
    /\ probeResult' = [probeResult EXCEPT ![i] = result]
    /\ permits' = IF result.state = "error" \/ result.raised # None THEN permits ELSE permits + 1

\* the end of a task: the result or exception is kept by gather, and leaving
\* "async with semaphore" gives the slot back
Finished(i, result) ==
    /\ probePc' = [probePc EXCEPT ![i] = "done"]
    /\ probeResult' = [probeResult EXCEPT ![i] = result]
    /\ permits' = permits + 1

\* async with semaphore; then the sleep, or without rate_limit straight into scan_port
\* up to the awaited open_connection.  The tasks reach the semaphore in the order
\* gather started them, and waiters are served first come, first served.
Acquire(i) ==
    /\ scanPhase = "running"
    /\ probePc[i] = "created"
    /\ \A j \in 1..(i - 1) : probePc[j] # "created"
    /\ CanAcquire(permits)
    /\ permits' = permits - 1
    /\ probePc' = [probePc EXCEPT ![i] = IF rateLimit THEN "sleeping" ELSE "connecting"]
    /\ probeResult' = [probeResult EXCEPT ![i] = IF rateLimit THEN @ ELSE NewResult(scanPorts[i])]
    /\ UNCHANGED <<scanPhase, scanKind, scanHost, scanPorts, maxConcurrent, rateLimit, probeOutcome, scanReturn>>
    /\ UNCHANGED restVars

\* asyncio.sleep(0.1) is over: scan_port up to the awaited open_connection
Wake(i) ==
    /\ scanPhase = "running"
    /\ probePc[i] = "sleeping"
    /\ probePc' = [probePc EXCEPT ![i] = "connecting"]
    /\ probeResult' = [probeResult EXCEPT ![i] = NewResult(scanPorts[i])]
    /\ UNCHANGED <<scanPhase, scanKind, scanHost, scanPorts, maxConcurrent, rateLimit, permits, probeOutcome, scanReturn>>
    /\ UNCHANGED restVars

\* the connect attempt ends
Connect(i, outcome) ==
    /\ scanPhase = "running"
    /\ probePc[i] = "connecting"
    /\ probeOutcome' = [probeOutcome EXCEPT ![i] = outcome]
    /\ IF outcome = "connected"
       THEN /\ probePc' = [probePc EXCEPT ![i] = "reading"]
            /\ probeResult' = [probeResult EXCEPT ![i].state = "open"]
            /\ UNCHANGED permits
       ELSE Finished(i, AfterException(probeResult[i], outcome))
    /\ UNCHANGED <<scanPhase, scanKind, scanHost, scanPorts, maxConcurrent, rateLimit, scanReturn>>
    /\ UNCHANGED restVars

\* the banner read ends; writer.close() and the await of wait_closed() follow
ReadBanner(i, outcome) ==
    /\ scanPhase = "running"
    /\ probePc[i] = "reading"
    /\ probePc' = [probePc EXCEPT ![i] = "closing"]
    /\ probeResult' = [probeResult EXCEPT ![i] = AfterBanner(@, outcome)]
    /\ UNCHANGED <<scanPhase, scanKind, scanHost, scanPorts, maxConcurrent, rateLimit, permits, probeOutcome, scanReturn>>
    /\ UNCHANGED restVars

\* wait_closed() ends; scan_port returns or raises
Close(i, outcome) ==
    /\ scanPhase = "running"
    /\ probePc[i] = "closing"
    /\ Finished(i, IF outcome = "closed" THEN probeResult[i]
                   ELSE AfterException(probeResult[i], outcome))
    /\ UNCHANGED <<scanPhase, scanKind, scanHost, scanPorts, maxConcurrent, rateLimit, probeOutcome, scanReturn>>
    /\ UNCHANGED restVars

\* gather is complete: scan_ports returns valid_results
ReturnScan ==
    /\ scanPhase = "running"
    /\ GatherComplete(probePc)
    /\ scanPhase' = "returned"
    /\ scanReturn' = ValidResults(probeResult)
    /\ UNCHANGED <<scanKind, scanHost, scanPorts, maxConcurrent, rateLimit, permits, probePc,
                   probeOutcome, probeResult>>
    /\ UNCHANGED restVars

NextScan ==
    \/ \E ports \in PortLists, max_concurrent \in 1..MaxConcurrency, rate_limit \in BOOLEAN :
          CallScanPorts(ports, max_concurrent, rate_limit)
    \/ \E i \in 1..Len(scanPorts) : Acquire(i)
    \/ \E i \in 1..Len(scanPorts) : Wake(i)
    \/ \E i \in 1..Len(scanPorts), outcome \in ConnectOutcomes : Connect(i, outcome)
    \/ \E i \in 1..Len(scanPorts), outcome \in BannerOutcomes : ReadBanner(i, outcome)
    \/ \E i \in 1..Len(scanPorts), outcome \in CloseOutcomes : Close(i, outcome)
    \/ ReturnScan

SpecScan == Init /\ [][NextScan]_vars

\* the steps of the task of the i-th port
ProbeStep(i) ==
    /\ i \in DOMAIN probePc
    /\ \/ Acquire(i)
       \/ Wake(i)
       \/ \E outcome \in ConnectOutcomes : Connect(i, outcome)
       \/ \E outcome \in BannerOutcomes : ReadBanner(i, outcome)
       \/ \E outcome \in CloseOutcomes : Close(i, outcome)

\* The event loop runs every task that can run.  A task that waits resumes: the
\* sleep ends after 0.1 s, the connect attempt and the banner read are under
\* wait_for, and wait_closed() after close() of a transport that has written
\* nothing ends with the next pass of the loop, whatever the remote host does.
ScanFairness ==
    /\ \A i \in 1..MaxPorts : WF_vars(ProbeStep(i))
    /\ WF_vars(ReturnScan)

SpecScanFair == SpecScan /\ ScanFairness

(***************************************************************************)
(* TargetProfiler.profile_target (intel/profiler.py), against stubs of the *)
(* resolver and of the remote host                                          *)
(***************************************************************************)
Depths == {"basic", "standard", "full", "deep"}
DnsStubs == {"resolved", "no_records", "raises"}

\* TargetProfiler({'rate_limiting': False, 'max_concurrent_scans': n}): one slot, or a
\* value the semaphore rejects
ScanSlots == {1, -1}

\* the calls made: profile_target(target, depth, collect_evidence) against a resolver stub.
\* The scan of ports 1..1024 is run once, the other depths with every stub.
ProfileInputs ==
    {[target |-> "example.com", depth |-> depth, collect_evidence |-> collect_evidence,
      dns |-> dns, max_concurrent_scans |-> n, rate_limiting |-> FALSE] :
        depth \in (Depths \ {"deep"}) \cup UnknownDepths, collect_evidence \in BOOLEAN,
        dns \in DnsStubs, n \in ScanSlots}
    \cup
    {[target |-> "example.com", depth |-> "deep", collect_evidence |-> TRUE,
      dns |-> dns, max_concurrent_scans |-> n, rate_limiting |-> FALSE] :
        dns \in {"resolved"}, n \in ScanSlots}

\* what the stubbed resolver makes of the target
StubResolve(dns) ==
    CASE dns = "resolved" -> ResolvedDict(<<"93.184.216.34">>)
      [] dns = "no_records" -> ResolvedDict(<<>>)
      [] OTHER -> ErrorDict("no nameservers")

\* how the stubbed hosts answer a connect
HostConnect(host, port) ==
    CASE host = "93.184.216.34" /\ port \in {80, 443} -> "connected"
      [] host = "93.184.216.34" /\ port = 22 -> "TimeoutError"
      [] host = "example.com" /\ port = 22 -> "connected"
      [] OTHER -> "ConnectionRefusedError"

\* what the stubbed hosts send first
HostBanner(host, port) == IF port = 22 THEN "SSH-2.0-OpenSSH" ELSE "TimeoutError"

profRest == <<auditVars, concVars, sealVars, osintVars, dnsVars, riskVars, fpVars, pathVars, writeVars, collectorVars>>

LogEvent(stage, event) == [stage |-> stage, event |-> event]

\* evidence_collector.collect(evidence_type, ...) when evidence is collected
Collected(items, collect_evidence, evidence_type) ==
    IF collect_evidence THEN Append(items, evidence_type) ELSE items

\* profile_target up to "Step 1"
CallProfileTarget(args) ==
    /\ profStage = "idle"
    /\ profArgs' = args
    /\ profStage' = "DNS"
    /\ profile' = NewProfile(args.target, args.depth)
    /\ UNCHANGED <<profRunning, stageLog, workers, todo, evidenceItems, profReturn,
                   failedStages>>
    /\ UNCHANGED <<scanVars, profRest>>

\* the test of a block holds: the block is entered
Enter(stage) ==
    /\ profStage = stage
    /\ ~profRunning
    /\ Requested(stage, profArgs.depth, profArgs.collect_evidence)
    /\ profRunning' = TRUE
    /\ stageLog' = Append(stageLog, LogEvent(stage, "begin"))
    /\ UNCHANGED <<profArgs, profStage, profReturn, failedStages>>

\* a slip: an except clause that gives up the run
AfterExceptAbort(stage) == "done"

\* an except clause ends and the code below its block is reached
AfterExcept(stage) == NextStage(stage)

\* the end of a block, through its last statement
Leave(stage) ==
    /\ profStage = stage
    /\ profRunning
    /\ profRunning' = FALSE
    /\ profStage' = NextStage(stage)
    /\ stageLog' = Append(stageLog, LogEvent(stage, "end"))
    /\ UNCHANGED <<profArgs, profReturn, failedStages>>

\* the end of a block through its except clause
LeaveFailed(stage) ==
    /\ profStage = stage
    /\ profRunning
    /\ profRunning' = FALSE
    /\ profStage' = AfterExcept(stage)
    /\ stageLog' = Append(stageLog, LogEvent(stage, "end"))
    /\ failedStages' = failedStages \cup {stage}
    /\ UNCHANGED <<profArgs, profReturn>>

\* the test of a block fails: the block is passed over
SkipStage ==
    /\ profStage \in {Stages[i] : i \in 1..Len(Stages)}
    /\ ~profRunning
    /\ ~Requested(profStage, profArgs.depth, profArgs.collect_evidence)
    /\ profStage' = NextStage(profStage)
    /\ UNCHANGED <<profArgs, profRunning, profile, stageLog, workers, todo, evidenceItems,
                   profReturn, failedStages>>
    /\ UNCHANGED <<scanVars, profRest>>

BeginDns ==
    /\ Enter("DNS")
    /\ UNCHANGED <<profile, workers, todo, evidenceItems>>
    /\ UNCHANGED <<scanVars, profRest>>

\* resolve_target returned or raised
EndDns ==
    /\ IF profArgs.dns = "raises"
       THEN /\ LeaveFailed("DNS")
            /\ UNCHANGED evidenceItems
       ELSE /\ Leave("DNS")
            /\ evidenceItems' = Collected(evidenceItems, profArgs.collect_evidence,
                                          "dns_resolution")
    /\ profile' = [profile EXCEPT !.dns_info = StubResolve(profArgs.dns)]
    /\ UNCHANGED <<workers, todo>>
    /\ UNCHANGED <<scanVars, profRest>>

QuickScan(host, max_concurrent, rate_limit) ==
    StartScanPorts("quick_scan", host, common_ports, max_concurrent, rate_limit)

FullScan(host, max_concurrent, rate_limit) ==
    StartScanPorts("full_scan", host, all_ports, max_concurrent, rate_limit)

\* scan_target up to the gather of its scan
ScanTarget(host, scan_type, max_concurrent, rate_limit) ==
    IF scan_type = "full" THEN FullScan(host, max_concurrent, rate_limit)
    ELSE QuickScan(host, max_concurrent, rate_limit)

\* asyncio.Semaphore(value) raises ValueError for a negative value
SemaphoreRaises(value) == value < 0

BeginScan ==
    /\ Enter("SCAN")
    /\ IF SemaphoreRaises(profArgs.max_concurrent_scans) THEN UNCHANGED scanVars
       ELSE ScanTarget(ScanTargetOf(profArgs.target, profile.dns_info), ScanType(profArgs.depth),
                       profArgs.max_concurrent_scans, profArgs.rate_limiting)
    /\ UNCHANGED <<profile, workers, todo, evidenceItems>>
    /\ UNCHANGED profRest

\* scan_target returned its dict, or the block's except clause ran
EndScan ==
    /\ IF SemaphoreRaises(profArgs.max_concurrent_scans)
       THEN /\ LeaveFailed("SCAN")
            /\ profile' = [profile EXCEPT !.network_scan =
                              ScanError("Semaphore initial value must be >= 0")]
            /\ UNCHANGED evidenceItems
       ELSE /\ Leave("SCAN")
            /\ scanPhase = "returned"
            /\ profile' = [profile EXCEPT !.network_scan =
                              ScanTargetResult(scanHost, ScanType(profArgs.depth), scanReturn)]
            /\ evidenceItems' = Collected(evidenceItems, profArgs.collect_evidence, "network_scan")
    /\ UNCHANGED <<workers, todo>>
    /\ UNCHANGED <<scanVars, profRest>>

BeginFingerprint ==
    /\ Enter("FINGERPRINT")
    /\ todo' = FingerprintPlan(profile.network_scan.open_ports, profArgs.depth)
    /\ UNCHANGED <<profile, workers, evidenceItems>>
    /\ UNCHANGED <<scanVars, profRest>>

\* the next await of the fingerprinting block
StartFetch ==
    /\ profStage = "FINGERPRINT"
    /\ profRunning
    /\ workers = {}
    /\ todo # <<>>
    /\ workers' = {Head(todo)}
    /\ todo' = Tail(todo)
    /\ UNCHANGED <<profArgs, profStage, profRunning, profile, stageLog, evidenceItems, profReturn,
                   failedStages>>
    /\ UNCHANGED <<scanVars, profRest>>

\* the awaited fetch returned
EndFetch(w) ==
    /\ profStage = "FINGERPRINT"
    /\ w \in workers
    /\ workers' = workers \ {w}
    /\ profile' =
         CASE w.kind = "fingerprint_service" ->
                [profile EXCEPT !.services = Append(@, w.port)]
           [] w.kind = "fingerprint_http" ->
                [profile EXCEPT !.http_fingerprint = StepDict("http_fingerprint")]
           [] OTHER -> [profile EXCEPT !.discovered_paths = <<"/robots.txt">>]
    /\ UNCHANGED <<profArgs, profStage, profRunning, stageLog, todo, evidenceItems, profReturn,
                   failedStages>>
    /\ UNCHANGED <<scanVars, profRest>>

\* the awaited fetch raised: the except clause of the block logs the error
FetchRaises(w) ==
    /\ LeaveFailed("FINGERPRINT")
    /\ w \in workers
    /\ workers' = {}
    /\ todo' = <<>>
    /\ UNCHANGED <<profile, evidenceItems>>
    /\ UNCHANGED <<scanVars, profRest>>

EndFingerprint ==
    /\ Leave("FINGERPRINT")
    /\ todo = <<>>
    /\ workers = {}
    /\ evidenceItems' = Collected(evidenceItems, profArgs.collect_evidence,
                                  "service_fingerprinting")
    /\ UNCHANGED <<profile, workers, todo>>
    /\ UNCHANGED <<scanVars, profRest>>

\* collect_osint up to its gather
BeginOsint ==
    /\ Enter("OSINT")
    /\ workers' = OsintWorkers
    /\ UNCHANGED <<profile, todo, evidenceItems>>
    /\ UNCHANGED <<scanVars, profRest>>

\* one of the three sub-queries is done
EndSubQuery(w) ==
    /\ profStage = "OSINT"
    /\ w \in workers
    /\ workers' = workers \ {w}
    /\ UNCHANGED <<profArgs, profStage, profRunning, profile, stageLog, todo, evidenceItems,
                   profReturn, failedStages>>
    /\ UNCHANGED <<scanVars, profRest>>

\* the gather of collect_osint is complete
EndOsint ==
    /\ Leave("OSINT")
    /\ workers = {}
    /\ profile' = [profile EXCEPT !.osint = StepDict("osint")]
    /\ evidenceItems' = Collected(evidenceItems, profArgs.collect_evidence, "osint")
    /\ UNCHANGED <<workers, todo>>
    /\ UNCHANGED <<scanVars, profRest>>

\* collect_osint raised after its gather
OsintRaises ==
    /\ LeaveFailed("OSINT")
    /\ workers = {}
    /\ profile' = [profile EXCEPT !.osint = ErrorDict("object of type 'CancelledError' has no len()")]
    /\ UNCHANGED <<workers, todo, evidenceItems>>
    /\ UNCHANGED <<scanVars, profRest>>

BeginRisk ==
    /\ Enter("RISK")
    /\ UNCHANGED <<profile, workers, todo, evidenceItems>>
    /\ UNCHANGED <<scanVars, profRest>>

\* the vulnerability assessment is done; completed_at is set
EndRisk ==
    /\ Leave("RISK")
    /\ profile' = [profile EXCEPT !.vulnerabilities = <<>>,
                                  !.risk_assessment = StepDict("risk_assessment"),
                                  !.completed_at = "2024-01-01T00:00:09"]
    /\ evidenceItems' = Collected(evidenceItems, profArgs.collect_evidence,
                                  "vulnerability_assessment")
    /\ UNCHANGED <<workers, todo>>
    /\ UNCHANGED <<scanVars, profRest>>

\* match_vulnerabilities or assess_risk_score raised; completed_at is set
RiskRaises ==
    /\ LeaveFailed("RISK")
    /\ profile' = [profile EXCEPT !.risk_assessment = ErrorDict("assessment failed"),
                                  !.completed_at = "2024-01-01T00:00:09"]
    /\ UNCHANGED <<workers, todo, evidenceItems>>
    /\ UNCHANGED <<scanVars, profRest>>

BeginSeal ==
    /\ Enter("SEAL")
    /\ UNCHANGED <<profile, workers, todo, evidenceItems>>
    /\ UNCHANGED <<scanVars, profRest>>

\* save_all returned
EndSeal ==
    /\ Leave("SEAL")
    /\ profile' = [profile EXCEPT !.evidence_sealed = TRUE,
                                  !.evidence_files = Len(evidenceItems)]
    /\ UNCHANGED <<workers, todo, evidenceItems>>
    /\ UNCHANGED <<scanVars, profRest>>

\* save_all raised: nothing in profile_target catches it
SealFails ==
    /\ profStage = "SEAL"
    /\ profRunning
    /\ profRunning' = FALSE
    /\ profStage' = "done"
    /\ profReturn' = "raised"
    /\ failedStages' = failedStages \cup {"SEAL"}
    /\ UNCHANGED <<profArgs, profile, stageLog, workers, todo, evidenceItems>>
    /\ UNCHANGED <<scanVars, profRest>>

\* return profile
ReturnProfile ==
    /\ profStage = "done"
    /\ profReturn = "none"
    /\ profReturn' = "returned"
    /\ UNCHANGED <<profArgs, profStage, profRunning, profile, stageLog, workers, todo,
                   evidenceItems, failedStages>>
    /\ UNCHANGED <<scanVars, profRest>>

\* the tasks of the scan that hold a slot, and the one that is next in line
Active(pcs) ==
    LET started == {i \in 1..Len(pcs) : pcs[i] # "created"}
    IN  {i \in started : pcs[i] # "done"}
        \cup (IF Cardinality(started) < Len(pcs) THEN {Cardinality(started) + 1} ELSE {})

NextProfile ==
    \/ \E args \in ProfileInputs : CallProfileTarget(args)
    \/ SkipStage
    \/ BeginDns
    \/ EndDns
    \/ BeginScan
    \/ \E i \in Active(probePc) : Acquire(i)
    \/ \E i \in Active(probePc) : Connect(i, HostConnect(scanHost, scanPorts[i]))
    \/ \E i \in Active(probePc) : ReadBanner(i, HostBanner(scanHost, scanPorts[i]))
    \/ \E i \in Active(probePc) : Close(i, "closed")
    \/ ReturnScan
    \/ EndScan
    \/ BeginFingerprint
    \/ StartFetch
    \/ \E w \in workers : EndFetch(w)
    \/ \E w \in workers : FetchRaises(w)
    \/ EndFingerprint
    \/ BeginOsint
    \/ \E w \in workers : EndSubQuery(w)
    \/ EndOsint
    \/ OsintRaises
    \/ BeginRisk
    \/ EndRisk
    \/ RiskRaises
    \/ BeginSeal
    \/ EndSeal
    \/ SealFails
    \/ ReturnProfile

SpecProfile == Init /\ [][NextProfile]_vars

osintRest == <<auditVars, concVars, sealVars, scanVars, profVars, dnsVars, riskVars, fpVars, pathVars, writeVars, collectorVars>>

\* collect_osint up to its gather: the three coroutines are created and awaited
CallCollectOsint(target) ==
    /\ osintPhase = "idle"
    /\ osintPhase' = "running"
    /\ osintTarget' = target
    /\ UNCHANGED <<subQuery, subHow, osintResult>>
    /\ UNCHANGED osintRest

\* the task of sub-query q ends and gather keeps what it returned or raised
SubQueryEnds(q, how, value) ==
    /\ subHow[q] = "pending"
    /\ subQuery' = [subQuery EXCEPT ![q] = value]
    /\ subHow' = [subHow EXCEPT ![q] = how]
    /\ UNCHANGED <<osintPhase, osintTarget, osintResult>>
    /\ UNCHANGED osintRest

EndWhois(w) ==
    /\ osintPhase = "running"
    /\ SubQueryEnds("collect_whois", IF w.raises THEN "caught" ELSE "ok",
                    collect_whois(osintTarget, w))

EndSubdomains(answer) ==
    /\ osintPhase = "running"
    /\ SubQueryEnds("collect_subdomains_passive",
                    IF SubdomainsCaught(osintTarget, answer) THEN "caught" ELSE "ok",
                    collect_subdomains_passive(osintTarget, answer))

EndWayback(answer) ==
    /\ osintPhase = "running"
    /\ SubQueryEnds("collect_wayback_urls", IF answer.raises THEN "caught" ELSE "ok",
                    collect_wayback_urls(osintTarget, answer))

\* a sub-query that raises instead of returning (a replaced method, a cancelled task)
SubQueryRaises(q, class) ==
    /\ osintPhase = "running"
    /\ SubQueryEnds(q, IF class = "Exception" THEN "raised" ELSE "cancelled",
                    RaisedValue(class, "forced"))

\* the gather is complete: collect_osint builds its result
ReturnOsint ==
    /\ osintPhase = "running"
    /\ \A q \in SubQueries : subHow[q] # "pending"
    /\ IF LenRaises(subQuery["collect_subdomains_passive"])
       THEN /\ osintPhase' = "raised"
            /\ UNCHANGED osintResult
       ELSE /\ osintPhase' = "returned"
            /\ osintResult' = OsintResult(osintTarget, subQuery["collect_whois"],
                                          subQuery["collect_subdomains_passive"],
                                          subQuery["collect_wayback_urls"])
    /\ UNCHANGED <<osintTarget, subQuery, subHow>>
    /\ UNCHANGED osintRest

NextOsint ==
    \/ \E target \in OsintTargets : CallCollectOsint(target)
    \/ \E w \in WhoisAnswers : EndWhois(w)
    \/ \E answer \in CrtAnswers : EndSubdomains(answer)
    \/ \E answer \in WaybackAnswers : EndWayback(answer)
    \/ \E q \in SubQueries, class \in ExceptionClasses : SubQueryRaises(q, class)
    \/ ReturnOsint

SpecOsint == Init /\ [][NextOsint]_vars

dnsRest == <<auditVars, concVars, sealVars, scanVars, profVars, osintVars, riskVars, fpVars, pathVars, writeVars, collectorVars>>

\* resolve_target up to its first lookup
CallResolveTarget(target) ==
    /\ resolvePc = "idle"
    /\ resolveTarget' = target
    /\ resolveResult' = NewResolveResult(target)
    /\ resolvePc' = FirstStep(NewResolveResult(target))
    /\ UNCHANGED lookups
    /\ UNCHANGED dnsRest

\* socket.gethostbyaddr returns the host name
ReverseLookup ==
    /\ resolvePc = "reverse"
    /\ resolveResult' = [resolveResult EXCEPT !.hostname = "host.example.com"]
    /\ lookups' = [lookups EXCEPT !["reverse"] = "ok"]
    /\ resolvePc' = "return"
    /\ UNCHANGED resolveTarget
    /\ UNCHANGED dnsRest

\* socket.gethostbyaddr raises
ReverseLookupFails(error) ==
    /\ resolvePc = "reverse"
    /\ lookups' = [lookups EXCEPT !["reverse"] = error]
    /\ IF ReverseCaught(error)
       THEN /\ resolveResult' = [resolveResult EXCEPT !.hostname = None]
            /\ resolvePc' = "return"
       ELSE /\ resolvePc' = "raised"
            /\ UNCHANGED resolveResult
    /\ UNCHANGED resolveTarget
    /\ UNCHANGED dnsRest

\* dns.resolver.Resolver() reads the resolver configuration of the system
NewResolver ==
    /\ resolvePc = "resolver"
    /\ lookups' = [lookups EXCEPT !["resolver"] = "ok"]
    /\ resolvePc' = RecordTypes[1]
    /\ UNCHANGED <<resolveTarget, resolveResult>>
    /\ UNCHANGED dnsRest

\* dns.resolver.Resolver() raises NoResolverConfiguration, outside every try
NewResolverFails ==
    /\ resolvePc = "resolver"
    /\ lookups' = [lookups EXCEPT !["resolver"] = "NoResolverConfiguration"]
    /\ resolvePc' = "raised"
    /\ UNCHANGED <<resolveTarget, resolveResult>>
    /\ UNCHANGED dnsRest

\* resolver.resolve(target, rdtype) answers
Lookup ==
    /\ resolvePc \in RecordTypeSet
    /\ resolveResult' = [resolveResult EXCEPT !.records[resolvePc] = Rdata(resolvePc)]
    /\ lookups' = [lookups EXCEPT ![resolvePc] = "ok"]
    /\ resolvePc' = AfterLookup(resolvePc)
    /\ UNCHANGED resolveTarget
    /\ UNCHANGED dnsRest

\* resolver.resolve(target, rdtype) raises
LookupFails(error) ==
    /\ resolvePc \in RecordTypeSet
    /\ lookups' = [lookups EXCEPT ![resolvePc] = error]
    /\ resolvePc' = AfterLookupError(resolvePc)
    /\ UNCHANGED <<resolveTarget, resolveResult>>
    /\ UNCHANGED dnsRest

ReturnResolve ==
    /\ resolvePc = "return"
    /\ resolvePc' = "returned"
    /\ UNCHANGED <<resolveTarget, resolveResult, lookups>>
    /\ UNCHANGED dnsRest

NextResolve ==
    \/ \E target \in ResolveTargets : CallResolveTarget(target)
    \/ ReverseLookup
    \/ \E error \in ReverseErrors : ReverseLookupFails(error)
    \/ NewResolver
    \/ NewResolverFails
    \/ Lookup
    \/ \E error \in LookupErrors : LookupFails(error)
    \/ ReturnResolve

SpecResolve == Init /\ [][NextResolve]_vars

riskRest == <<auditVars, concVars, sealVars, scanVars, profVars, osintVars, dnsVars, fpVars, pathVars, writeVars, collectorVars>>

\* step 5 of profile_target: the vulnerabilities are matched from the
\* technologies of the fingerprint, then the profile that holds them is scored
AssessRisk(open_ports, security_headers, technologies) ==
    /\ riskOp = "none"
    /\ LET vulnerabilities == match_vulnerabilities(technologies)
           profile_dict == RiskProfile(open_ports, security_headers, technologies, vulnerabilities)
       IN  /\ riskProfile' = profile_dict
           /\ riskResult' = assess_risk_score(profile_dict)
    /\ riskOp' = "assess"
    /\ UNCHANGED riskRest

\* the same profile with one more matched vulnerability, of a severity above
\* every one it holds, scored again
AddVulnerability(severity) ==
    /\ riskOp # "none"
    /\ Len(riskProfile.vulnerabilities) < MaxVulns
    /\ \A i \in 1..Len(riskProfile.vulnerabilities) :
           SeverityRank(severity) > SeverityRank(riskProfile.vulnerabilities[i].severity)
    /\ LET profile_dict ==
               [riskProfile EXCEPT !.vulnerabilities = Append(@, Vulnerability("added", severity))]
       IN  /\ riskProfile' = profile_dict
           /\ riskResult' = assess_risk_score(profile_dict)
    /\ riskOp' = "add"
    /\ UNCHANGED riskRest

NextRisk ==
    \/ \E open_ports \in SUBSET RiskPorts, security_headers \in SUBSET SecurityHeaders,
          technologies \in TechnologyLists :
              AssessRisk(open_ports, security_headers, technologies)
    \/ \E severity \in SeveritySet : AddVulnerability(severity)

SpecRisk == Init /\ [][NextRisk]_vars

fpRest == <<auditVars, concVars, sealVars, scanVars, profVars, osintVars, dnsVars, riskVars, pathVars, writeVars, collectorVars>>

\* fingerprint_http hands the body and the headers of the response to _detect_technologies
DetectTechnologies(body, headers) ==
    /\ ~techDone
    /\ techBody' = body
    /\ techHeaders' = headers
    /\ detected' = _detect_technologies(body, headers)
    /\ techDone' = TRUE
    /\ UNCHANGED fpRest

NextDetect ==
    \E body \in SUBSET BodyWords, powered_by \in PoweredByValues, server \in ServerValues :
        DetectTechnologies(body, Headers(powered_by, server))

SpecDetect == Init /\ [][NextDetect]_vars

pathRest == <<auditVars, concVars, sealVars, scanVars, profVars, osintVars, dnsVars, riskVars, fpVars, writeVars, collectorVars>>

\* probe_common_paths up to the await of the first session.get
CallProbeCommonPaths(host) ==
    /\ pathPc = "idle"
    /\ pathHost' = host
    /\ pathIndex' = 1
    /\ pathPc' = "get"
    /\ pathInFlight' = {common_paths[1]}
    /\ pathLog' = <<PathEvent("get", common_paths[1])>>
    /\ UNCHANGED discovered
    /\ UNCHANGED pathRest

\* the awaited session.get ends with a response or an exception; the sleep begins
EndGet ==
    /\ pathPc = "get"
    /\ LET path == common_paths[pathIndex]
           answer == Answer(pathHost, path)
       IN  /\ discovered' = IF ~answer.raises /\ Discoverable(answer.status)
                            THEN Append(discovered, Discovery(path, answer.status))
                            ELSE discovered
           /\ pathInFlight' = pathInFlight \ {path}
           /\ pathLog' = Append(pathLog, PathEvent("sleep", path))
    /\ pathPc' = "sleep"
    /\ UNCHANGED <<pathIndex, pathHost>>
    /\ UNCHANGED pathRest

\* asyncio.sleep(0.2) is over: the loop goes on to the next path
NextPath ==
    /\ pathPc = "sleep"
    /\ pathIndex < Len(common_paths)
    /\ pathIndex' = pathIndex + 1
    /\ pathPc' = "get"
    /\ pathInFlight' = pathInFlight \cup {common_paths[pathIndex + 1]}
    /\ pathLog' = Append(pathLog, PathEvent("get", common_paths[pathIndex + 1]))
    /\ UNCHANGED <<pathHost, discovered>>
    /\ UNCHANGED pathRest

\* asyncio.sleep(0.2) is over after the last path: the session is closed, the list returned
ReturnPaths ==
    /\ pathPc = "sleep"
    /\ pathIndex = Len(common_paths)
    /\ pathPc' = "returned"
    /\ UNCHANGED <<pathIndex, pathHost, pathInFlight, pathLog, discovered>>
    /\ UNCHANGED pathRest

NextPaths ==
    \/ \E host \in PathHosts : CallProbeCommonPaths(host)
    \/ EndGet
    \/ NextPath
    \/ ReturnPaths

SpecPaths == Init /\ [][NextPaths]_vars

(***************************************************************************)
(* One AuditLogger instance, one caller, on a file system that can refuse  *)
(* to open audit_file or fail while the line is written.                   *)
(***************************************************************************)
writeRest == <<tamperCount, concVars, sealVars, scanVars, profVars, osintVars, dnsVars, riskVars, fpVars, pathVars, collectorVars>>

\* a slip: the pointer assigned before the with block
PointerAfterRaiseAdvanced(previous_hash, current_hash) == current_hash

\* self._previous_hash when the with block has raised: line 86 has not run
PointerAfterRaise(previous_hash, current_hash) == previous_hash

\* the hashed entry log_action builds for caller at the pointer previous_hash
BuiltEntry(timestamp, caller, target, action, result, previous_hash) ==
    LET entry == NewEntry(timestamp, caller[1], target, action, result, caller[2], previous_hash)
    IN DictSet(entry, "hash", EntryHash(entry))

\* log_action runs to its return
LogActionReturns(l) ==
    /\ previousHash[l] # NoInstance
    /\ Len(auditFile) < MaxLog \/ tornTail
    /\ \E timestamp \in Timestamps, caller \in Callers, target \in Targets,
          action \in ActionNames, result \in Outcomes :
          LET entry == BuiltEntry(timestamp, caller, target, action, result, previousHash[l])
          IN /\ auditFile' = StoreLine(auditFile, tornTail, entry)
             /\ previousHash' = [previousHash EXCEPT ![l] = entry["hash"]]
             /\ logReturn' = ReturnedHash(entry["hash"])
    /\ auditExists' = TRUE
    /\ tornTail' = FALSE
    /\ lastOp' = "log_action"
    /\ verifyResult' = NoResult
    /\ UNCHANGED writeRest

\* open(self.audit_file, 'a') raises: the file is as it was
OpenFails(l) ==
    /\ previousHash[l] # NoInstance
    /\ \E timestamp \in Timestamps, caller \in Callers, target \in Targets,
          action \in ActionNames, result \in Outcomes :
          LET entry == BuiltEntry(timestamp, caller, target, action, result, previousHash[l])
          IN previousHash' = [previousHash EXCEPT ![l] = PointerAfterRaise(previousHash[l], entry["hash"])]
    /\ logReturn' = RaisedOSError
    /\ lastOp' = "log_action raised"
    /\ verifyResult' = NoResult
    /\ UNCHANGED <<auditExists, auditFile, tornTail>>
    /\ UNCHANGED writeRest

\* the write, or the flush when the with block closes the file, raises: the
\* file exists, and none or a part of the line has reached it
WriteFails(l) ==
    /\ previousHash[l] # NoInstance
    /\ \E timestamp \in Timestamps, caller \in Callers, target \in Targets,
          action \in ActionNames, result \in Outcomes :
          LET entry == BuiltEntry(timestamp, caller, target, action, result, previousHash[l])
          IN previousHash' = [previousHash EXCEPT ![l] = PointerAfterRaise(previousHash[l], entry["hash"])]
    /\ \E part \in BOOLEAN :
          /\ part => tornTail \/ Len(auditFile) < MaxLog
          /\ tornTail' = (tornTail \/ part)
          /\ auditFile' = IF part /\ ~tornTail THEN Append(auditFile, InvalidLine) ELSE auditFile
    /\ auditExists' = TRUE
    /\ logReturn' = RaisedOSError
    /\ lastOp' = "log_action raised"
    /\ verifyResult' = NoResult
    /\ UNCHANGED writeRest

NextWrite ==
    \/ LogActionReturns("L1")
    \/ OpenFails("L1")
    \/ WriteFails("L1")
    \/ VerifyIntegrity("L1")

SpecWrite == InitOneLogger /\ [][NextWrite]_vars

(***************************************************************************)
(* Runs of an EvidenceCollector on one evidence directory                  *)
(***************************************************************************)
collectorRest == <<auditVars, concVars, sealVars, scanVars, profVars, osintVars, dnsVars, riskVars, fpVars, pathVars, writeVars>>

\* EvidenceCollector(collector_name, case_id, evidence_dir) for a further run
NewCollector ==
    /\ collectorOp = "save_all"
    /\ evidence_items' = <<>>
    /\ saved' = {}
    /\ collectorOp' = "__init__"
    /\ UNCHANGED <<utcnow, created, evidence_dir>>
    /\ UNCHANGED collectorRest

\* the clock passes to the next second
ClockTick ==
    /\ utcnow < MaxClock
    /\ utcnow' = utcnow + 1
    /\ UNCHANGED <<created, evidence_items, evidence_dir, saved, collectorOp>>
    /\ UNCHANGED collectorRest

\* collect(evidence_type, data, evidence_id)
CollectEvidence(evidence_type, evidence_id) ==
    /\ created < MaxItems
    /\ created' = created + 1
    /\ evidence_items' = Append(evidence_items,
                                NewEvidence(created + 1,
                                            EvidenceId(evidence_type, evidence_id, utcnow),
                                            evidence_type))
    /\ collectorOp' = "collect"
    /\ UNCHANGED <<utcnow, evidence_dir, saved>>
    /\ UNCHANGED collectorRest

\* save_all()
SaveAll ==
    /\ collectorOp = "collect"
    /\ LET r == SaveFrom(evidence_items, 1, evidence_dir, {})
       IN /\ evidence_dir' = r.dir
          /\ saved' = r.saved
    /\ collectorOp' = "save_all"
    /\ UNCHANGED <<utcnow, created, evidence_items>>
    /\ UNCHANGED collectorRest

NextCollector ==
    \/ NewCollector
    \/ ClockTick
    \/ \E evidence_type \in EvidenceTypes, evidence_id \in CustomIds : CollectEvidence(evidence_type, evidence_id)
    \/ SaveAll

SpecCollector == Init /\ [][NextCollector]_vars

(***************************************************************************)
(* Properties of the audit log                                             *)
(***************************************************************************)
Records == 1..Len(auditFile)

PredecessorHash(lines, k) == IF k = 1 THEN Genesis ELSE DictGet(lines[k - 1].obj, "hash")

\* record k carries a previous_hash equal to its predecessor's stored hash
LinkOk(lines, k) ==
    /\ "previous_hash" \in DOMAIN lines[k].obj
    /\ lines[k].obj["previous_hash"] = PredecessorHash(lines, k)

\* record k's stored hash is the hash of its other fields
HashOk(lines, k) ==
    /\ "hash" \in DOMAIN lines[k].obj
    /\ lines[k].obj["hash"] = Sha256(DumpsSorted(DictPop(lines[k].obj, "hash")))

WellFormed(ln) == ln.kind = "object" /\ "hash" \in DOMAIN ln.obj

\* the key-sorted serialization of the seven fields of an entry other than hash, written out
CanonicalOfSeven(obj) ==
    "{\"action\": " \o JsonValue(obj["action"]) \o
    ", \"auth_token\": " \o JsonValue(obj["auth_token"]) \o
    ", \"previous_hash\": " \o JsonValue(obj["previous_hash"]) \o
    ", \"result\": " \o JsonValue(obj["result"]) \o
    ", \"target\": " \o JsonValue(obj["target"]) \o
    ", \"timestamp\": " \o JsonValue(obj["timestamp"]) \o
    ", \"user\": " \o JsonValue(obj["user"]) \o "}"

\* C1 (as claimed): in a log that only log_action has written, every record's
\* previous_hash is the hash of the record stored before it (genesis for the
\* first), and verify_integrity succeeds.
C1_ChainLinked ==
    /\ \A k \in Records : LinkOk(auditFile, k)
    /\ VerifyIntegrityResult(auditExists, auditFile).outcome = "ok"

\* C6: every log_action step keeps the stored records as they are and adds exactly
\* one record at the end; every verify_integrity step leaves the store and every
\* logger's previous-hash pointer unchanged.
C6_AppendOnly ==
    [][/\ lastOp' = "log_action" =>
            /\ Len(auditFile') = Len(auditFile) + 1
            /\ SubSeq(auditFile', 1, Len(auditFile)) = auditFile
       /\ lastOp' = "verify_integrity" =>
            /\ auditFile' = auditFile
            /\ auditExists' = auditExists
            /\ previousHash' = previousHash]_vars

C6_Witness ==
    /\ lastOp = "verify_integrity"
    /\ Len(auditFile) >= 2
    /\ \E l \in Loggers : previousHash[l] = auditFile[Len(auditFile)].obj["hash"]

C2_VerifyIffAllLinksAndHashes ==
    (auditExists /\ \A k \in Records : WellFormed(auditFile[k])) =>
        /\ VerifyIntegrityResult(auditExists, auditFile).outcome \in {"ok", "fail"}
        /\ VerifyIntegrityResult(auditExists, auditFile).outcome = "ok"
              <=> \A k \in Records : HashOk(auditFile, k) /\ LinkOk(auditFile, k)
        /\ lastOp = "verify_integrity" =>
              verifyResult = VerifyIntegrityResult(auditExists, auditFile)

\* well-formed records, the first one sound, the second with a broken link:
\* verify_integrity has failed on the link
C2_Witness ==
    /\ lastOp = "verify_integrity"
    /\ verifyResult = Failure("Hash chain broken", 2)
    /\ \A k \in Records : WellFormed(auditFile[k])
    /\ HashOk(auditFile, 1) /\ LinkOk(auditFile, 1) /\ ~LinkOk(auditFile, 2)

\* the stored log and its successor differ in the value of one field of record k only
OneFieldChanged(k) ==
    /\ Len(auditFile') = Len(auditFile)
    /\ \A j \in Records \ {k} : auditFile'[j] = auditFile[j]
    /\ auditFile[k].kind = "object" /\ auditFile'[k].kind = "object"
    /\ DOMAIN auditFile'[k].obj = DOMAIN auditFile[k].obj
    /\ Cardinality({f \in DOMAIN auditFile[k].obj : auditFile'[k].obj[f] # auditFile[k].obj[f]}) = 1

\* C3: when one field of record k of a log that verifies is changed, verify_integrity
\* fails and reports line k, having read no line after k.
C3_TamperReportedAtFirstDivergence ==
    [][\A k \in Records :
          (VerifyIntegrityResult(auditExists, auditFile).outcome = "ok" /\ OneFieldChanged(k)) =>
              /\ VerifyIntegrityResult(auditExists', auditFile').outcome = "fail"
              /\ VerifyIntegrityResult(auditExists', auditFile').line = k
              /\ VerifyIntegrityResult(auditExists', auditFile')
                    = VerifyIntegrityResult(auditExists', SubSeq(auditFile', 1, k))]_vars

\* a field of the first record has been changed, verification stopped there and
\* did not go on to the record behind it
C3_Witness ==
    /\ lastOp = "verify_integrity"
    /\ tamperCount = 1
    /\ Len(auditFile) >= 2
    /\ verifyResult = Failure("Hash mismatch", 1)
    /\ \A k \in Records : DOMAIN auditFile[k].obj = EntryKeys
    /\ auditFile[1].obj["user"] = "mallory"
    /\ LinkOk(auditFile, 1) /\ LinkOk(auditFile, 2) /\ HashOk(auditFile, 2)

Malformed(ln) == ln.kind # "object" \/ "hash" \notin DOMAIN ln.obj

\* C4 (as claimed): when record k is malformed and the records before it verify,
\* verify_integrity returns a failure naming line k with the malformed-record cause;
\* it neither raises nor reports success.
C4_MalformedReported ==
    \A k \in Records :
        (/\ auditExists
         /\ Malformed(auditFile[k])
         /\ VerifyIntegrityResult(auditExists, SubSeq(auditFile, 1, k - 1)).outcome = "ok") =>
            VerifyIntegrityResult(auditExists, auditFile) = Failure("Invalid JSON", k)

\* C5 (as claimed): whatever the interleaving of the log_action calls of two threads,
\* no two stored records carry the same previous_hash, and once both calls have
\* returned the stored log verifies.
C5_ConcurrentAppendsKeepChain ==
    /\ \A i, j \in Records :
          i # j => auditFile[i].obj["previous_hash"] # auditFile[j].obj["previous_hash"]
    /\ (\A t \in Threads : pc[t] = "idle") =>
          VerifyIntegrityResult(auditExists, auditFile).outcome = "ok"

(***************************************************************************)
(* Properties of the evidence seals                                        *)
(***************************************************************************)
\* the envelope of the package in memory, and whether it is as it was sealed
EnvelopeNow == GetKey(SealedNow, "evidence")
AsSealed == sealed # Nothing /\ tamperCount = 0 /\ EnvelopeNow = sealedAs

\* C8: a package is valid as sealed, and saved and loaded again is returned
\* unchanged: verify_seal of a package that is as seal_evidence returned it answers
\* true, and load_sealed_evidence of the file save_sealed_evidence wrote for such a
\* package returns that package and raises nothing.
C8_SealRoundTrip ==
    /\ (lastOp = "verify_seal" /\ AsSealed) => sealResult.outcome = "true"
    /\ (lastOp = "load_sealed_evidence" /\ AsSealed /\ sealedFile = SavedFile(SealedNow))
          => sealResult = SealReturned("load_sealed_evidence", SealedNow)

\* the JSON content of the envelope is no more what was sealed
PayloadMutated == sealed # Nothing /\ Reload(EnvelopeNow) # Reload(sealedAs)

\* C9: once sealed the hash is frozen: when the data, the metadata, the timestamp or
\* the chain-of-custody list inside the envelope has changed in content since the
\* seal, verify_seal on that package answers false.
C9_MutationInvalidatesSeal ==
    (lastOp = "verify_seal" /\ PayloadMutated) => sealResult.outcome = "false"

\* add_to_chain after Evidence.seal() changed the list the envelope holds, and
\* verify_seal answered false
C9_Witness ==
    /\ lastOp = "verify_seal"
    /\ sealResult.outcome = "false"
    /\ tamperCount = 0
    /\ HasKey(GetKey(sealed, "evidence"), "data")
    /\ HasKey(GetKey(GetKey(sealed, "evidence"), "data"), "chain_of_custody")
    /\ GetKey(GetKey(GetKey(sealed, "evidence"), "data"), "chain_of_custody") = JRef
    /\ GetKey(GetKey(EnvelopeNow, "data"), "chain_of_custody") = JList(chain)
    /\ GetKey(GetKey(sealedAs, "data"), "chain_of_custody") # JList(chain)

\* the file parses, and lacks a section or its envelope does not hash to seal.hash
Mismatch(file) ==
    /\ file.kind = "json"
    /\ \/ ~HasKey(file.v, "evidence")
       \/ ~HasKey(file.v, "seal")
       \/ ~HasKey(GetKey(file.v, "seal"), "hash")
       \/ GetKey(GetKey(file.v, "seal"), "hash")
             # JStr(CalculateHash(Dumps(GetKey(file.v, "evidence"), TRUE)))

\* C10: a seal mismatch is surfaced and never repaired: load_sealed_evidence and
\* load_evidence leave the file as it is, and on a file that lacks the evidence or
\* seal section, or whose envelope does not hash to seal.hash, they raise ValueError
\* and return nothing.
C10_MismatchSurfaced ==
    [][lastOp' \in {"load_sealed_evidence", "load_evidence"} =>
          /\ sealedFile' = sealedFile
          /\ Mismatch(sealedFile) =>
                /\ sealResult'.outcome = "ValueError"
                /\ sealResult'.value = Nothing]_vars

\* load_evidence raised on a file whose data was changed after it was saved
C10_Witness ==
    /\ lastOp = "load_evidence"
    /\ sealResult = SealRaised("load_evidence", "ValueError")
    /\ tamperCount = 1
    /\ HasKey(sealedFile.v, "evidence")
    /\ HasKey(sealedFile.v, "seal")
    /\ GetKey(GetKey(sealedFile.v, "evidence"), "data") = Banner
    /\ GetKey(GetKey(sealedFile.v, "seal"), "hash") # JStr("bogus")
    /\ Mismatch(sealedFile)

\* the hash a package carries
SealHash(sealed_evidence) == GetKey(GetKey(sealed_evidence, "seal"), "hash")

\* the same dict built in the opposite insertion order (an equal dict)
Reversed(d) ==
    IF d.t = "dict" THEN JDict([i \in 1..Len(d.items) |-> d.items[Len(d.items) + 1 - i]]) ELSE d

\* the values a key of data is given in the second call
OtherValues ==
    {JStr("10.0.0.9"), JStr(""), JStr("null"), JNull, JList(<<>>), JList(<<JStr("10.0.0.9")>>),
     JDict(<<>>), JDict(<<StrItem("ip", JStr("10.0.0.9"))>>)}

\* C11: seal_evidence is deterministic, and sensitive to every key of data: after a
\* call with (data, metadata) at a timestamp, a second call with equal data (the same
\* dict, also when built in another insertion order), equal metadata and the same
\* timestamp gives the same hash, and a second call whose data has another value
\* under one of its keys gives another hash.
C11_SealDeterministicAndSensitive ==
    lastOp \in {"seal_evidence", "seal"} =>
        LET envelope == GetKey(sealed, "evidence")
            data == GetKey(envelope, "data")
            metadata == GetKey(envelope, "metadata")
            timestamp == GetKey(envelope, "timestamp").s
            Again(d, m) == SealHash(SealEvidenceResult(d, m, timestamp, chain))
        IN /\ Again(data, metadata) = SealHash(sealed)
           /\ Again(Reversed(data), Reversed(metadata)) = SealHash(sealed)
           /\ data.t = "dict" =>
                 \A i \in 1..Len(data.items) :
                    \A v \in OtherValues \ {Resolve(data.items[i].val, chain)} :
                       Again(JDict([data.items EXCEPT ![i].val = v]), metadata) # SealHash(sealed)

\* seal_evidence was called with a dict of two keys
C11_Witness ==
    /\ lastOp = "seal_evidence"
    /\ GetKey(GetKey(sealed, "evidence"), "data") = PortMap
    /\ SealHash(sealed) # SealHash(SealEvidenceResult(Resolution, JDict(<<>>), "2024-01-01T00:00:00", chain))

(***************************************************************************)
(* Properties of the port scan                                             *)
(***************************************************************************)
Probes == 1..Len(scanPorts)
ScanStates == {"open", "closed", "filtered", "error"}

\* C12: scan_ports returns exactly one result per requested port, in whatever way
\* each probe ended (success, timeout, refusal, other error, cancellation), and the
\* state of each result is one of open, closed, filtered, error.
C12_OneResultPerPort ==
    scanPhase = "returned" =>
        /\ Len(scanReturn) = Len(scanPorts)
        /\ \A i \in 1..Len(scanReturn) :
              /\ scanReturn[i].port = scanPorts[i]
              /\ scanReturn[i].state \in ScanStates

\* the probes that have started their connect attempt and have not returned
InFlightProbes == {i \in Probes : probePc[i] \in {"connecting", "reading", "closing"}}

\* C13: at every instant of a scan_ports call at most max_concurrent probes have
\* started their connect attempt and not yet returned.
C13_AtMostMaxConcurrentInFlight ==
    scanPhase = "running" => Cardinality(InFlightProbes) <= maxConcurrent

\* two ports, one slot: a probe is in flight while the other waits for the semaphore
C13_Witness ==
    /\ scanPhase = "running"
    /\ maxConcurrent = 1
    /\ Len(scanPorts) = 2
    /\ Cardinality(InFlightProbes) = 1
    /\ \E i \in Probes : probePc[i] = "created"
    /\ permits = 0

\* the step ends probe i with a failure: state error, or an exception
Fails(i) ==
    /\ probePc[i] # "done"
    /\ probePc'[i] = "done"
    /\ probeResult'[i].state = "error" \/ probeResult'[i].raised # None

\* C14: a failing probe is isolated: the step in which a probe ends with state error
\* or with an exception leaves the position and the result of every other probe as
\* they are and gives its semaphore slot back; and when scan_ports returns, every
\* probe has run to its end and every probe that returned a result is reported, in
\* the order of the ports.
C14_FailureIsolated ==
    [][/\ \A i \in Probes :
             Fails(i) =>
                /\ permits' = permits + 1
                /\ \A j \in Probes \ {i} :
                      probePc'[j] = probePc[j] /\ probeResult'[j] = probeResult[j]
       /\ scanPhase' = "returned" =>
             /\ \A i \in Probes : probePc'[i] = "done"
             /\ scanReturn' = SelectSeq(probeResult', LAMBDA r : r.raised = None)]_vars

\* one slot: the first probe failed with an error, the second ran after it and found
\* its port open, and both are reported
C14_Witness ==
    /\ scanPhase = "returned"
    /\ maxConcurrent = 1
    /\ Len(scanPorts) = 2
    /\ probeOutcome[1] = "OSError"
    /\ probeResult[1].state = "error"
    /\ probeResult[2].state = "open"
    /\ scanReturn = <<probeResult[1], probeResult[2]>>

\* the state the outcome of the connect attempt stands for
StateOfConnect(outcome) ==
    CASE outcome = "connected" -> "open"
      [] outcome = "TimeoutError" -> "filtered"
      [] outcome = "ConnectionRefusedError" -> "closed"
      [] OTHER -> "error"

\* C15: the state of a probe's result is determined by its connect attempt alone:
\* connected gives open, whatever the banner read and the closing of the connection
\* do; a timeout gives filtered; a refusal gives closed; any other transport error
\* gives error with the message in the result.
C15_StateFromConnectAlone ==
    \A i \in Probes :
        (probePc[i] = "done" /\ probeResult[i].raised = None) =>
            /\ probeResult[i].state = StateOfConnect(probeOutcome[i])
            /\ probeOutcome[i] = "OSError" => probeResult[i].error = ErrorText("OSError")

(***************************************************************************)
(* Properties of quick_scan, full_scan and profile_target                  *)
(***************************************************************************)
\* the ports the tasks of the running or finished scan were created for
PortSet == {scanPorts[i] : i \in 1..Len(scanPorts)}

\* every task that tried to connect tried its own entry of the list, and at the return
\* of the scan every task has tried
ProbedAsListed ==
    /\ \A i \in 1..Len(scanPorts) :
          probeOutcome[i] # "none" => probeResult[i].port = scanPorts[i]
    /\ scanPhase = "returned" => \A i \in 1..Len(scanPorts) : probeOutcome[i] # "none"

FullScanAsListed ==
    scanKind = "full_scan" => PortSet = 1..1024 /\ Len(scanPorts) = 1024

QuickScanPorts ==
    {21, 22, 23, 25, 53, 80, 110, 135, 139, 143, 443, 445,
     993, 995, 1433, 1521, 3306, 3389, 5432, 5900, 8080, 8443}

\* C16 as stated: quick_scan probes exactly the ports of one fixed list of 21 distinct
\* ports, and full_scan exactly the ports 1 to 1024, each port once.
C16_QuickScanList21 ==
    /\ scanKind = "quick_scan" =>
          /\ Len(scanPorts) = 21
          /\ Cardinality(PortSet) = 21
          /\ PortSet \subseteq QuickScanPorts
    /\ FullScanAsListed
    /\ scanKind \in {"quick_scan", "full_scan"} => ProbedAsListed

\* C16 amended: the fixed list of quick_scan has 22 distinct ports (21, 22, 23, 25, 53,
\* 80, 110, 135, 139, 143, 443, 445, 993, 995, 1433, 1521, 3306, 3389, 5432, 5900, 8080,
\* 8443); quick_scan probes exactly these and full_scan exactly 1 to 1024, each port once.
C16_QuickScanList22 ==
    /\ scanKind = "quick_scan" =>
          /\ Len(scanPorts) = 22
          /\ PortSet = QuickScanPorts
    /\ FullScanAsListed
    /\ scanKind \in {"quick_scan", "full_scan"} => ProbedAsListed

C16_Witness ==
    /\ scanKind = "quick_scan"
    /\ scanPhase = "returned"
    /\ Len(scanReturn) = 22
    /\ \E i \in 1..Len(scanReturn) : scanReturn[i].port = 8443

\* the steps profile_target has entered so far
StagesRun == {stageLog[i].stage : i \in {j \in 1..Len(stageLog) : stageLog[j].event = "begin"}}

\* the depth table of the specification; a depth it does not list is run as basic
DepthTable(depth) ==
    CASE depth \in {"basic"} \cup UnknownDepths -> {"DNS"}
      [] depth = "standard" -> {"DNS", "SCAN"}
      [] OTHER -> {"DNS", "SCAN", "FINGERPRINT", "OSINT", "RISK"}

\* C17: profile_target runs exactly the steps the depth table lists for the requested
\* depth and no other (sealing apart, which the table does not list): never a step
\* outside the row, at the end every step of the row; the scan is the quick one except
\* for deep, and paths are probed only for deep.
C17_StagesAsDepthTable ==
    /\ (StagesRun \ {"SEAL"}) \subseteq DepthTable(profArgs.depth)
    /\ profStage = "done" => (StagesRun \ {"SEAL"}) = DepthTable(profArgs.depth)
    /\ scanKind # "none" =>
          scanKind = (IF profArgs.depth = "deep" THEN "full_scan" ELSE "quick_scan")
    /\ profile.discovered_paths # <<>> => profArgs.depth = "deep"

\* no scan_ports call has been made and no probe task exists
NoProbeStarted == scanPhase = "idle" /\ scanKind = "none" /\ probePc = <<>>

\* C18: at depth basic profile_target never starts a port probe; the profile it returns
\* has an empty network_scan, and its dns_info is what the resolver returned (the A
\* records as resolved).
C18_BasicNeverScans ==
    profArgs.depth = "basic" =>
        /\ NoProbeStarted
        /\ "SCAN" \notin StagesRun
        /\ profReturn = "returned" =>
              /\ profile.network_scan = NoScan
              /\ profArgs.dns = "resolved" =>
                    profile.dns_info = ResolvedDict(<<"93.184.216.34">>)
              /\ profArgs.dns = "no_records" => profile.dns_info = ResolvedDict(<<>>)

C18_Witness ==
    /\ profArgs.depth = "basic"
    /\ profReturn = "returned"
    /\ profile.dns_info.a_records = <<"93.184.216.34">>
    /\ profile.completed_at # None

\* the place of a step in the order the specification gives: fingerprinting and OSINT
\* share a place
OrderOf(stage) ==
    CASE stage = "DNS" -> 1
      [] stage = "SCAN" -> 2
      [] stage \in {"FINGERPRINT", "OSINT"} -> 3
      [] stage = "RISK" -> 4
      [] OTHER -> 5

Begins == {i \in 1..Len(stageLog) : stageLog[i].event = "begin"}

Ended(stage, k) == \E j \in 1..(k - 1) : stageLog[j] = LogEvent(stage, "end")

\* C19: the steps run in strict order at every depth, also after a failed step: no step
\* begins twice, none begins after a step of a later place has begun, and when a step
\* begins every step of an earlier place that was begun has ended (DNS before SCAN, SCAN
\* before FINGERPRINT and OSINT, these before RISK, RISK before the sealing).
C19_StageOrderStrict ==
    \A i \in Begins :
        \A j \in Begins :
            j < i =>
                /\ stageLog[j].stage # stageLog[i].stage
                /\ OrderOf(stageLog[j].stage) <= OrderOf(stageLog[i].stage)
                /\ OrderOf(stageLog[j].stage) < OrderOf(stageLog[i].stage)
                      => Ended(stageLog[j].stage, i)

C19_Witness ==
    /\ profReturn = "returned"
    /\ profile.dns_info.kind = "error"
    /\ profile.network_scan.kind = "error"
    /\ StagesRun = {"DNS", "SCAN", "FINGERPRINT", "OSINT", "RISK", "SEAL"}

\* the probe tasks that have not ended
UnfinishedProbes == {i \in 1..Len(probePc) : probePc[i] # "done"}

\* C20: a step is awaited whole before the next begins: outside a step (before its
\* depth test, and so whenever a step begins) no port probe, no HTTP fetch and no
\* OSINT sub-query of an earlier step is unfinished, and inside a step only that
\* step's own workers are.
C20_StageAwaitedWhole ==
    /\ ~profRunning => UnfinishedProbes = {} /\ workers = {} /\ todo = <<>>
    /\ profRunning /\ profStage # "SCAN" => UnfinishedProbes = {}
    /\ profRunning /\ profStage # "FINGERPRINT" =>
          \A w \in workers : w \in OsintWorkers /\ profStage = "OSINT"
    /\ profRunning /\ profStage # "OSINT" => workers \cap OsintWorkers = {}

C20_Witness ==
    /\ profStage = "OSINT"
    /\ profRunning
    /\ Cardinality(workers) = 3
    /\ scanPhase = "returned"
    /\ Len(profile.services) = 2
    /\ \E i \in 1..Len(probeOutcome) : probeOutcome[i] = "connected"

(***************************************************************************)
(* Properties of profile_target under failing steps                        *)
(***************************************************************************)
StageSet == {Stages[i] : i \in 1..Len(Stages)}

\* the call has got past the block of the step
Past(stage) ==
    \/ profStage = "done"
    \/ profStage \in StageSet /\ StageIndex(profStage) > StageIndex(stage)

\* C21: whatever steps fail (DNS, SCAN, FINGERPRINT, OSINT, RISK), at every depth each
\* later step of the depth's row is still attempted, the run ends with completed_at
\* set, and no step's failure leaves profile_target as an exception (an exception can
\* only come out of the sealing that follows the steps).
C21_PartialFailureTolerant ==
    /\ \A stage \in DepthTable(profArgs.depth) : Past(stage) => stage \in StagesRun
    /\ profStage = "done" => profile.completed_at # None
    /\ profReturn = "raised" =>
          /\ stageLog[Len(stageLog)] = LogEvent("SEAL", "begin")
          /\ \A stage \in failedStages \ {"SEAL"} : Ended(stage, Len(stageLog))

C21_Witness ==
    /\ profReturn = "returned"
    /\ failedStages = {"DNS", "FINGERPRINT", "OSINT", "RISK"}
    /\ profile.completed_at # None
    /\ StagesRun = {"DNS", "SCAN", "FINGERPRINT", "OSINT", "RISK"}

\* C22: every step that fails leaves {error: message} in its own part of the profile:
\* DNS in dns_info, SCAN in network_scan, FINGERPRINT in services or http_fingerprint,
\* OSINT in osint, RISK in risk_assessment.
C22_FailureRecordedInOwnSection ==
    /\ "DNS" \in failedStages => profile.dns_info.kind = "error"
    /\ "SCAN" \in failedStages => profile.network_scan.kind = "error"
    /\ "FINGERPRINT" \in failedStages => profile.http_fingerprint.kind = "error"
    /\ "OSINT" \in failedStages => profile.osint.kind = "error"
    /\ "RISK" \in failedStages => profile.risk_assessment.kind = "error"

\* C23: a failure while the evidence is sealed and saved does not discard the profile:
\* profile_target does not end with the exception, it returns the profile.
C23_SealFailureKeepsProfile ==
    "SEAL" \in failedStages => profReturn # "raised"

\* C24: once completed_at is set no field of the profile is written again, and
\* completed_at is set only when every step of the depth's row has been attempted.
C24_ImmutableOnceCompleted ==
    [][/\ profile.completed_at # None => profile' = profile
       /\ profile'.completed_at # None =>
             \A stage \in DepthTable(profArgs'.depth) : stage \in StagesRun']_vars

\* the evidence type under which each step's output is collected
EvidenceTypeOf(stage) ==
    CASE stage = "DNS" -> "dns_resolution"
      [] stage = "SCAN" -> "network_scan"
      [] stage = "FINGERPRINT" -> "service_fingerprinting"
      [] stage = "OSINT" -> "osint"
      [] OTHER -> "vulnerability_assessment"

ItemsOf(evidence_type) == {i \in 1..Len(evidenceItems) : evidenceItems[i] = evidence_type}

\* C25 (the items collected and the files listed): with evidence collection on, at the
\* end of the run every step that was executed has contributed exactly one Evidence
\* item, and evidence_files lists one sealed file for each collected item.
C25_OneSealedItemPerStage ==
    profArgs.collect_evidence /\ profStage = "done" =>
        /\ \A stage \in StagesRun \ {"SEAL"} :
              Cardinality(ItemsOf(EvidenceTypeOf(stage))) = 1
        /\ Len(evidenceItems) = Cardinality(StagesRun \ {"SEAL"})
        /\ profile.evidence_sealed
        /\ profile.evidence_files = Len(evidenceItems)

(***************************************************************************)
(* OSINT collection: properties.                                           *)
(***************************************************************************)
\* a sub-query failed: its except clause ran, or it raised an Exception
Failed(q) == subHow[q] \in {"caught", "raised"}
Succeeded(q) == subHow[q] = "ok"
OsintEnded == osintPhase \in {"returned", "raised"}

\* the field of the result dict that belongs to sub-query q
FieldOf(result, q) ==
    CASE q = "collect_whois" -> result.whois
      [] q = "collect_subdomains_passive" -> result.subdomains
      [] q = "collect_wayback_urls" -> result.historical_urls

\* C26: when one of the three sub-queries fails and the other two succeed,
\* collect_osint returns normally, and the fields of the two that succeeded
\* hold exactly what those sub-queries returned.
C26_OneFailureIsolated ==
    \A q \in SubQueries :
        OsintEnded /\ Failed(q) /\ (\A o \in SubQueries \ {q} : Succeeded(o)) =>
            /\ osintPhase = "returned"
            /\ \A o \in SubQueries \ {q} : FieldOf(osintResult, o) = subQuery[o]

\* the subdomain search raised, whois and the archive answered with data,
\* and collect_osint returned both
C26_Witness ==
    /\ osintPhase = "returned"
    /\ subHow["collect_subdomains_passive"] = "raised"
    /\ Succeeded("collect_whois") /\ Succeeded("collect_wayback_urls")
    /\ osintResult.whois.dict.registrar = "Example Registrar"
    /\ Len(osintResult.historical_urls.list) = 2

\* the value a field holds when its sub-query succeeded and found nothing
EmptySuccess(q) ==
    IF q = "collect_whois" THEN collect_whois(osintTarget, WhoisAnswer(None, <<>>))
    ELSE ListValue(<<>>)
HasErrorMarker(value) == value.t = "dict" /\ "error" \in value.dict.keys

\* C27: in the result of collect_osint the field of every failed sub-query
\* carries an error marker and differs from the field of a sub-query that
\* succeeded without data, and the field of no other sub-query carries one.
C27_FailureMarkedOnOwnField ==
    osintPhase = "returned" =>
        \A q \in SubQueries :
            /\ Failed(q) => /\ HasErrorMarker(FieldOf(osintResult, q))
                            /\ FieldOf(osintResult, q) # EmptySuccess(q)
            /\ Succeeded(q) => ~HasErrorMarker(FieldOf(osintResult, q))

\* str.lower()
Lower(part) ==
    CASE part = "WWW." -> "www."
      [] part = "EXAMPLE.COM" -> "example.com"
      [] OTHER -> part
LowerName(name) == [i \in 1..Len(name) |-> Lower(name[i])]

\* C28: the list collect_subdomains_passive returns holds no two entries
\* that are equal after lowercasing and no entry that begins with "*.".
C28_SubdomainsDeduplicated ==
    LET returned == subQuery["collect_subdomains_passive"]
    IN  returned.t = "list" =>
            /\ \A i, j \in 1..Len(returned.list) :
                   i # j => LowerName(returned.list[i]) # LowerName(returned.list[j])
            /\ \A i \in 1..Len(returned.list) :
                   returned.list[i] = <<>> \/ returned.list[i][1] # "*."

(***************************************************************************)
(* DNS resolution: properties.                                             *)
(***************************************************************************)
LookupFailed(r) == lookups[r] \notin {"not tried", "ok"}

\* C29: resolve_target never raises; in what it returns the list of every
\* record type whose lookup failed is empty and a failed reverse lookup
\* leaves the host name None; and for a domain every one of the six lookups
\* is made, whichever of the others failed.
C29_ResolutionFailuresNeverPropagate ==
    /\ resolvePc # "raised"
    /\ resolvePc = "returned" =>
          /\ \A r \in RecordTypeSet : LookupFailed(r) => resolveResult.records[r] = <<>>
          /\ LookupFailed("reverse") => resolveResult.hostname = None
          /\ ~resolveResult.is_ip /\ resolveResult.is_domain =>
                 \A r \in RecordTypeSet : lookups[r] # "not tried"

(***************************************************************************)
(* Risk assessment: properties.                                            *)
(***************************************************************************)
\* C30: the score of every assessed profile lies in 0..100, and scoring a
\* profile again after adding a matched vulnerability of strictly higher
\* severity, everything else unchanged, gives a score that is not lower.
C30_ScoreMonotonicAndBounded ==
    [][/\ riskResult'.score \in 0..MaxScore
       /\ riskOp' = "add" => riskResult'.score >= riskResult.score]_vars

\* a critical vulnerability was added as the third of a profile, whose
\* weighted sum then passes 100, and the profile was scored again
C30_Witness ==
    /\ riskOp = "add"
    /\ riskProfile.vulnerabilities[Len(riskProfile.vulnerabilities)].severity = "critical"
    /\ Len(riskProfile.vulnerabilities) = 3
    /\ WeightedSum(riskProfile) > MaxScore
    /\ riskResult.score = MaxScore

(***************************************************************************)
(* Port scanner, fingerprinter, audit log and evidence collector: further  *)
(* properties.                                                             *)
(***************************************************************************)
\* the tasks inside scan_port, and the slots of the semaphore that are taken
InScanPort == {i \in DOMAIN probePc : probePc[i] \in {"connecting", "reading", "closing"}}
SlotsTaken == maxConcurrent - permits

\* C31: with rate limiting on, the delay of a task comes before it takes a
\* slot: every slot that is taken is held by a task inside scan_port, none
\* by a task that is sleeping.
C31_SleepsBeforeAcquiring ==
    scanPhase = "running" /\ rateLimit => SlotsTaken = Cardinality(InScanPort)

\* the entries of the returned list that name one technology
EntriesOf(name) == {i \in 1..Len(detected) : detected[i].name = name}
DetectedNames == {detected[i].name : i \in 1..Len(detected)}

\* C32: each technology is named by at most one entry of the list that
\* _detect_technologies returns, and a technology that a header names is
\* listed with confidence "high".
C32_EachTechnologyOnce ==
    techDone =>
        /\ \A name \in DetectedNames : Cardinality(EntriesOf(name)) = 1
        /\ \A i \in 1..Len(PoweredByTechnologies(techHeaders.powered_by)) :
               \A j \in EntriesOf(PoweredByTechnologies(techHeaders.powered_by)[i].name) :
                   detected[j].confidence = "high"

\* what the call must have done when it returns: each path requested once,
\* in list order, each request followed by the sleep
RECURSIVE SerialLog(_)
SerialLog(paths) ==
    IF paths = <<>> THEN <<>>
    ELSE <<PathEvent("get", Head(paths)), PathEvent("sleep", Head(paths))>> \o SerialLog(Tail(paths))
Below400(path) ==
    ~Answer(pathHost, path).raises /\ Answer(pathHost, path).status < 400

\* C33: probe_common_paths has at most one request in flight; when it
\* returns it has requested every path of the list once, in list order,
\* with the sleep after each request, whatever the requests ended with; and
\* the list it returns names exactly the paths answered with a status
\* below 400, in list order.
C33_PathsProbedSerially ==
    /\ Cardinality(pathInFlight) <= 1
    /\ pathPc = "sleep" => pathInFlight = {}
    /\ pathPc = "returned" =>
          /\ pathLog = SerialLog(common_paths)
          /\ [i \in 1..Len(discovered) |-> discovered[i].path] = SelectSeq(common_paths, Below400)
          /\ \A i \in 1..Len(discovered) :
                 discovered[i].status = Answer(pathHost, discovered[i].path).status

\* the call returned after requests that raised, one answered 399 and one 400
C33_Witness ==
    /\ pathPc = "returned"
    /\ pathHost = "edge"
    /\ Len(discovered) = 2
    /\ Len(pathLog) = 2 * Len(common_paths)

\* the dicts scan_port has returned so far
Returned == {i \in DOMAIN probePc : probePc[i] = "done" /\ probeResult[i].raised = None}

\* C34: in every dict that scan_port returns, banner is set only if state
\* is "open", and the error key is there exactly if state is "error".
C34_BannerOnlyIfOpen ==
    \A i \in Returned :
        /\ probeResult[i].banner # None => probeResult[i].state = "open"
        /\ probeResult[i].error # None <=> probeResult[i].state = "error"

C36_EveryPrefixVerifies ==
    VerifyIntegrityResult(auditExists, auditFile).outcome = "ok" =>
        /\ \A n \in 0..Len(auditFile) :
              VerifyIntegrityResult(TRUE, SubSeq(auditFile, 1, n)) = Success(n)
        /\ VerifyIntegrityResult(FALSE, <<>>).outcome = "ok"

\* the last of two records was removed, the logger still points to it, and
\* verify_integrity has reported a verified log of one record
C36_Witness ==
    /\ tamperCount = 1
    /\ lastOp = "verify_integrity"
    /\ verifyResult = Success(1)
    /\ Len(auditFile) = 1
    /\ previousHash["L1"] \notin {Genesis, auditFile[1].obj["hash"]}

(***************************************************************************)
(* The previous-hash pointer when the write fails                          *)
(***************************************************************************)
\* the records log_action has written out in full, in file order
StoredRecords(lines) ==
    LET whole == SelectSeq(lines, LAMBDA ln : "hash" \in DOMAIN ln.obj)
    IN [i \in 1..Len(whole) |-> whole[i].obj]

LastStoredHash(lines) ==
    IF Len(StoredRecords(lines)) = 0 THEN Genesis
    ELSE StoredRecords(lines)[Len(StoredRecords(lines))]["hash"]

\* C37: a log_action whose write fails leaves the previous-hash pointer
\* unchanged, so the pointer is always the hash of the last record actually
\* stored and every stored record links to the stored record before it; after
\* a log_action that returned, the pointer is the returned hash and the hash
\* of the last stored record.
C37_PointerFollowsStoredRecords ==
    /\ previousHash["L1"] = LastStoredHash(auditFile)
    /\ \A i \in 1..Len(StoredRecords(auditFile)) :
          StoredRecords(auditFile)[i]["previous_hash"]
             = IF i = 1 THEN Genesis ELSE StoredRecords(auditFile)[i - 1]["hash"]
    /\ logReturn.outcome = "returned" =>
          /\ logReturn.hash = previousHash["L1"]
          /\ logReturn.hash = LastStoredHash(auditFile)

\* a record was stored, a write failed part-way, and a later log_action has
\* returned: its record follows the incomplete line and links to the first
C37_Witness ==
    /\ logReturn.outcome = "returned"
    /\ Len(auditFile) = 2
    /\ auditFile[1].kind = "object"
    /\ auditFile[2] = MergedLine(StoredRecords(auditFile)[2])
    /\ StoredRecords(auditFile)[2]["previous_hash"] = auditFile[1].obj["hash"]

(***************************************************************************)
(* Sealed files of an EvidenceCollector                                    *)
(***************************************************************************)
\* the Evidence objects whose seal a file of the evidence directory holds
ObjectsOnDisk == {f[2] : f \in evidence_dir}

\* C38: after save_all, the evidence ids of the collected items are pairwise
\* distinct, the returned mapping has one entry per item, each item's sealed
\* file holds that item, and every file that held an item of an earlier run
\* still holds it.
C38_OneSealedFilePerItem ==
    collectorOp = "save_all" =>
        /\ \A i, j \in 1..Len(evidence_items) :
              i # j => evidence_items[i].evidence_id # evidence_items[j].evidence_id
        /\ Cardinality(saved) = Len(evidence_items)
        /\ \A i \in 1..Len(evidence_items) :
              <<SealedName(evidence_items[i]), evidence_items[i].object>> \in evidence_dir
        /\ ObjectsOnDisk = 1..created

(***************************************************************************)
(* The dict scan_target returns                                            *)
(***************************************************************************)
\* sub is what is left of list when some of its elements are taken out
IsSubList(sub, list) ==
    \E f \in [1..Len(sub) -> 1..Len(list)] :
        /\ \A i \in 1..Len(sub) : sub[i] = list[f[i]]
        /\ \A i, j \in 1..Len(sub) : i < j => f[i] < f[j]

InState(list, state) == {i \in 1..Len(list) : list[i].state = state}

\* C39: in the dict scan_target builds from the results of its scan, open_ports
\* and filtered_ports are sub-lists of all_results with no result in common,
\* holding exactly the results of state 'open' and 'filtered', and
\* total_ports_scanned is the number of results whose state is not 'error'.
C39_ScanTargetCounts ==
    scanPhase = "returned" =>
        \A scan_type \in {"quick", "full"} :
            LET result == ScanTargetResult(scanHost, scan_type, scanReturn)
                all_results == result.all_results
            IN /\ all_results = scanReturn
               /\ IsSubList(result.open_ports, all_results)
               /\ IsSubList(result.filtered_ports, all_results)
               /\ InState(result.open_ports, "open") = 1..Len(result.open_ports)
               /\ InState(result.filtered_ports, "filtered") = 1..Len(result.filtered_ports)
               /\ Len(result.open_ports) = Cardinality(InState(all_results, "open"))
               /\ Len(result.filtered_ports) = Cardinality(InState(all_results, "filtered"))
               /\ \A i \in 1..Len(result.open_ports), j \in 1..Len(result.filtered_ports) :
                     result.open_ports[i] # result.filtered_ports[j]
               /\ result.total_ports_scanned
                     = Len(all_results) - Cardinality(InState(all_results, "error"))
               /\ result.total_ports_scanned <= Len(scanPorts)

\* two ports were asked for, one result is of state 'open' and one of state
\* 'error': total_ports_scanned is 1
C39_Witness ==
    /\ scanPhase = "returned"
    /\ Len(scanPorts) = 2
    /\ Len(scanReturn) = 2
    /\ scanReturn[1].state = "open"
    /\ scanReturn[2].state = "error"
    /\ ScanTargetResult(scanHost, "quick", scanReturn).total_ports_scanned = 1

(***************************************************************************)
(* profile_target with a depth it does not know, and without evidence      *)
(***************************************************************************)
StagesEnded == {stageLog[i].stage : i \in {j \in 1..Len(stageLog) : stageLog[j].event = "end"}}

\* C40: a depth outside basic, standard, full, deep is not rejected: the run
\* enters the blocks it enters for 'basic' (never SCAN, FINGERPRINT or OSINT,
\* and no port is probed), keeps the depth as given in profile_depth and
\* returns a completed profile; and a run with collect_evidence false, at any
\* depth, collects no evidence item, never reaches the sealing, and returns a
\* profile with evidence_sealed false and no evidence file.
C40_UnknownDepthRunsAsBasic ==
    /\ profArgs.depth \in UnknownDepths =>
          /\ \A stage \in {"DNS", "SCAN", "FINGERPRINT", "OSINT", "RISK", "SEAL"} :
                Requested(stage, profArgs.depth, profArgs.collect_evidence)
                   = Requested(stage, "basic", profArgs.collect_evidence)
          /\ StagesRun \cap {"SCAN", "FINGERPRINT", "OSINT"} = {}
          /\ NoProbeStarted
          /\ profile.profile_depth = profArgs.depth
          /\ profStage = "done" =>
                /\ {"DNS", "RISK"} \subseteq StagesEnded
                /\ profile.completed_at # None
                /\ profile.network_scan = NoScan
                /\ "SEAL" \notin failedStages => profReturn # "raised"
          /\ profReturn = "returned" => profile.evidence_sealed = profArgs.collect_evidence
    /\ profStage # "idle" /\ ~profArgs.collect_evidence =>
          /\ evidenceItems = <<>>
          /\ "SEAL" \notin StagesRun
          /\ profile.evidence_sealed = FALSE
          /\ profile.evidence_files = 0
          /\ profReturn # "raised"

\* a run at depth 'extreme' without evidence has returned its profile
C40_Witness ==
    /\ profReturn = "returned"
    /\ profArgs.depth = "extreme"
    /\ ~profArgs.collect_evidence
    /\ profile.profile_depth = "extreme"
    /\ StagesRun = {"DNS", "RISK"}
====
